---------------------------- MODULE Spec2Model ----------------------------
(***************************************************************************)
(* A model of edge-autopilot: the SmartDetector (action detection, risk    *)
(* scoring, policy recommendation), the two Supervisor classes             *)
(* (supervisor-v2.js, used by the CLI, and the older supervisor.js), the   *)
(* TaskQueue, the Dashboard with its WebSocket observers, and the          *)
(* Commander (the output tracker of its server and the AutopilotRunner of  *)
(* its client).                                                            *)
(*                                                                         *)
(* Numbers.  Risk scores and confidences are JavaScript doubles.  The     *)
(* model holds a double as the decimal it is nearest to, in hundredths     *)
(* (0.95 is 95), with the sign d of its distance from the double of that   *)
(* decimal (0.2 + 0.1 is 0.30000000000000004: v = 30, d = 1) and a flag    *)
(* for NaN, and compares with JsGt/JsGe/JsLt, which are false on NaN.      *)
(*                                                                         *)
(* Texts.  A chunk of output is modelled by what the code's regular        *)
(* expressions find in it: the patterns of actionDefs that match (each     *)
(* with the target its capture group extracts and the risk-factor tests    *)
(* that fire on that target and text), the dangerousPatterns that match,   *)
(* and, for the older supervisor, the patterns of ActionClassifier that    *)
(* match.                                                                  *)
(*                                                                         *)
(* Specifications.  Spec: detection and handleAction on chunks of output;   *)
(* SpecCalls: the same with repeated calls of shouldAutoAccept.            *)
(* SpecSession: a session of supervisor-v2.js, runQueue over a task file   *)
(* or interactive mode, with the child processes' 'close' and 'error'      *)
(* events, the dashboard's pause and resume and the statistics published   *)
(* to the dashboard; runQueue is cut at its awaits, each event handler is  *)
(* one step.  SpecSessionFair: the same with the timers and awaits of      *)
(* runQueue returning.  SpecOutput: the same session with the output of    *)
(* the child processes.  SpecApproval: the same session on short task      *)
(* files, with approvals registered and the dashboard's approve and deny   *)
(* messages.  SpecDetector: repeated calls of detect on one detector.      *)
(* SpecLongSession: the same on a detector whose history is at its cap.    *)
(* SpecMalformed: runQueue over task files with malformed entries.         *)
(* SpecDashboard: a short session with observers connecting to the         *)
(* dashboard and closing.  SpecTracker: runAutopilot of the Commander      *)
(* server on the output of its child.  SpecRunner: the socket events of    *)
(* an AutopilotRunner after start.                                         *)
(***************************************************************************)
EXTENDS Integers, Sequences, FiniteSets, TLC

VARIABLES
  impl,             \* which Supervisor class was constructed: "v2" or "v1"
  config,           \* the loaded configuration (mode, lists of config[mode], stop_on)
  history,          \* SmartDetector.history
  fileStats,        \* SmartDetector.fileStats: target -> [creates, edits, deletes]
  commandStats,     \* SmartDetector.commandStats: command -> count
  sessionStats,     \* Supervisor.sessionStats
  approvalRequests, \* number of slack.requestApproval calls made
  lastText,         \* the chunk last given to detect
  lastAction,       \* what detect returned for it (NoAction: null)
  lastResult,       \* what handleAction returned for lastAction ("none": not handled yet)
  chunks,           \* number of output chunks processed so far
  statsBefore,      \* sessionStats as they were when lastAction was detected
  outputAfterPause, \* a chunk was processed after handleAction returned pause
  recommendations,  \* what the calls of shouldAutoAccept on lastAction returned, in order
  rawTasks,         \* the task file as parsed: the priority of each task, in file order
  tasks,            \* TaskQueue.tasks
  loaded,           \* TaskQueue.loaded
  queue,            \* the array runQueue iterates: ids of the tasks pending at its start
  pc,               \* where the session is: runQueue's position, "interactive", "exited"
  idx,              \* the position of runQueue's for loop in queue
  procs,            \* the child processes spawned by runSingle, in spawn order
  activeProcess,    \* Supervisor.activeProcess: an index of procs, 0 for null
  isPaused,         \* Supervisor.isPaused
  lines,            \* number of input lines read in interactive mode
  pendingApprovals, \* Supervisor.pendingApprovals: the ids with an entry
  registered,       \* number of approval ids registered so far
  messages,         \* number of approve/deny messages handled
  lastMessage,      \* the last of them: [kind, id, resolved]
  verdicts,         \* for each id, the verdicts its entry was resolved with
  dashStats,        \* Dashboard.state.stats
  dashInsights,     \* Dashboard.state.insights
  finalReport,      \* what the sessionComplete broadcast carried, and when
  dashState,        \* Dashboard.state: mode, currentTask, queue, actions, sessionComplete
  clients,          \* the WebSocket connections accepted so far: [open, inbox]
  tracker,          \* runAutopilot of the Commander server: its locals, what it sent
  runner            \* an AutopilotRunner after start(): tasks, socket, promise

detVars == <<history, fileStats, commandStats>>
policyVars == <<impl, history, fileStats, commandStats, approvalRequests,
                lastText, lastAction, lastResult, chunks, statsBefore,
                outputAfterPause, recommendations>>
queueVars == <<rawTasks, tasks, loaded, queue, pc, idx>>
procVars == <<procs, activeProcess>>
approvalVars == <<pendingApprovals, registered, messages, lastMessage, verdicts>>
dashVars == <<dashStats, dashInsights, finalReport, dashState, clients>>
commanderVars == <<tracker, runner>>
sessionVars == <<queueVars, procVars, isPaused, lines, approvalVars, dashVars,
                 commanderVars>>
vars == <<config, sessionStats, policyVars, sessionVars>>

-----------------------------------------------------------------------------
(* JavaScript numbers, in hundredths *)

Num(v) == [nan |-> FALSE, v |-> v, d |-> 0]
NaN == [nan |-> TRUE, v |-> 0, d |-> 0]

\* The sign of the rounding error of the IEEE-754 sum a + b of calculateRisk's
\* risk += factorRisk, b being a factor's literal: adding 0 is exact, and of
\* the sums up to 1 that the declared base risks and factors can form, these
\* are the ones that are not the double of their decimal value.  Above 1 the
\* error is not tracked: Math.min(1, risk) returns 1
Rounding(a, b) ==
  IF b.v = 0 THEN a.d
  ELSE CASE a.v = 20 /\ a.d = 0 /\ b.v = 10 -> 1
         [] a.v = 20 /\ a.d = 0 /\ b.v = 40 -> 1
         [] a.v = 30 /\ a.d = 1 /\ b.v = 40 -> 1
         [] a.v = 60 /\ a.d = 0 /\ b.v = 30 -> -1
         [] a.v = 70 /\ a.d = 0 /\ b.v = 20 -> -1
         [] OTHER -> 0

\* a + b; a non-number operand (a Promise, or the string that += made of one)
\* leaves a value that Math.min turns into NaN
JsAdd(a, b) ==
  IF a.nan \/ b.nan THEN NaN
  ELSE [nan |-> FALSE, v |-> a.v + b.v, d |-> Rounding(a, b)]
JsGt(a, b) == ~a.nan /\ ~b.nan /\ (a.v > b.v \/ (a.v = b.v /\ a.d > b.d))
JsGe(a, b) == ~a.nan /\ ~b.nan /\ (a.v > b.v \/ (a.v = b.v /\ a.d >= b.d))
JsLt(a, b) == ~a.nan /\ ~b.nan /\ (a.v < b.v \/ (a.v = b.v /\ a.d < b.d))
\* Math.min(x, y) and Math.max(x, y): NaN if either is NaN
JsMin(a, b) == IF a.nan \/ b.nan THEN NaN ELSE IF JsLt(a, b) THEN a ELSE b
JsMax(a, b) == IF a.nan \/ b.nan THEN NaN ELSE IF JsGt(a, b) THEN a ELSE b

-----------------------------------------------------------------------------
(* SmartDetector: actionDefs and dangerousPatterns *)

\* Object.entries(this.actionDefs): the action types in declaration order
ActionTypes ==
  <<"file_create", "file_edit", "file_delete", "terminal_command", "npm_install",
    "git_commit", "git_push", "database_operation", "env_modification",
    "approval_prompt">>

\* def.patterns: the confidence of each pattern, in list order
PatternConfidence(type) ==
  CASE type = "file_create" -> <<95, 90, 70, 95, 80>>
    [] type = "file_edit" -> <<95, 95, 90, 85>>
    [] type = "file_delete" -> <<95, 90, 90, 95>>
    [] type = "terminal_command" -> <<90, 70, 85, 90>>
    [] type = "npm_install" -> <<95, 95, 95>>
    [] type = "git_commit" -> <<95, 80>>
    [] type = "git_push" -> <<95, 85>>
    [] type = "database_operation" -> <<95, 95, 95, 99, 95, 90>>
    [] type = "env_modification" -> <<95, 70, 90>>
    [] type = "approval_prompt" -> <<95, 90, 90, 95, 85>>

\* whether the pattern has a capture group; without one match[1] is undefined
\* and the target is ''
HasGroup(type, pat) ==
  CASE type = "database_operation" -> FALSE
    [] type = "approval_prompt" -> FALSE
    [] type = "env_modification" -> pat # 1
    [] OTHER -> TRUE

\* def.baseRisk; approval_prompt declares 0.5 and no riskFactors
BaseRisk(type) ==
  CASE type = "file_create" -> 20
    [] type = "file_edit" -> 30
    [] type = "file_delete" -> 70
    [] type = "terminal_command" -> 40
    [] type = "npm_install" -> 30
    [] type = "git_commit" -> 20
    [] type = "git_push" -> 60
    [] type = "database_operation" -> 80
    [] type = "env_modification" -> 70
    [] type = "approval_prompt" -> 50

\* Object.entries(def.riskFactors): the factors in declaration order, each with
\* the value it returns when its test fires.  kind "test": a synchronous test
\* of the target or text; "stats": file_edit's frequency, read from fileStats;
\* "async": npm_install's unknown_package, declared async, so that the call
\* returns a Promise whatever the package is
RiskFactors(type) ==
  CASE type = "file_create" ->
         << [name |-> "path_depth", kind |-> "test", value |-> 10],
            [name |-> "extension", kind |-> "test", value |-> 40],
            [name |-> "system_path", kind |-> "test", value |-> 50] >>
    [] type = "file_edit" ->
         << [name |-> "config_file", kind |-> "test", value |-> 20],
            [name |-> "sensitive_file", kind |-> "test", value |-> 50],
            [name |-> "frequency", kind |-> "stats", value |-> 30] >>
    [] type = "file_delete" ->
         << [name |-> "recursive", kind |-> "test", value |-> 30],
            [name |-> "force", kind |-> "test", value |-> 20],
            [name |-> "glob_pattern", kind |-> "test", value |-> 40],
            [name |-> "important_file", kind |-> "test", value |-> 30] >>
    [] type = "terminal_command" ->
         << [name |-> "sudo", kind |-> "test", value |-> 50],
            [name |-> "pipe_to_shell", kind |-> "test", value |-> 60],
            [name |-> "curl_pipe", kind |-> "test", value |-> 50],
            [name |-> "network", kind |-> "test", value |-> 30],
            [name |-> "destructive", kind |-> "test", value |-> 40] >>
    [] type = "npm_install" ->
         << [name |-> "global", kind |-> "test", value |-> 30],
            [name |-> "unknown_package", kind |-> "async", value |-> 40],
            [name |-> "dev_only", kind |-> "test", value |-> -10] >>
    [] type = "git_commit" ->
         << [name |-> "empty_message", kind |-> "test", value |-> 20],
            [name |-> "amend", kind |-> "test", value |-> 30] >>
    [] type = "git_push" ->
         << [name |-> "force", kind |-> "test", value |-> 40],
            [name |-> "main_branch", kind |-> "test", value |-> 30],
            [name |-> "all", kind |-> "test", value |-> 20] >>
    [] type = "database_operation" ->
         << [name |-> "drop", kind |-> "test", value |-> 50],
            [name |-> "truncate", kind |-> "test", value |-> 40],
            [name |-> "production", kind |-> "test", value |-> 50] >>
    [] type = "env_modification" ->
         << [name |-> "secret_key", kind |-> "test", value |-> 30],
            [name |-> "api_key", kind |-> "test", value |-> 20] >>
    [] type = "approval_prompt" -> << >>

\* this.dangerousPatterns, in list order: the severity of each
DangerousPatterns ==
  << [severity |-> "critical", reason |-> "Recursive delete from root"],
     [severity |-> "critical", reason |-> "Direct disk write"],
     [severity |-> "critical", reason |-> "Filesystem format"],
     [severity |-> "critical", reason |-> "Direct disk write"],
     [severity |-> "critical", reason |-> "Fork bomb"],
     [severity |-> "high", reason |-> "Insecure root permissions"],
     [severity |-> "high", reason |-> "Piping to sudo"],
     [severity |-> "high", reason |-> "Eval with env variable"],
     [severity |-> "high", reason |-> "Base64 decode to shell"] >>


-----------------------------------------------------------------------------
(* SmartDetector: detect, calculateRisk, riskLevel, checkDangerous, recordAction *)

\* file_edit's frequency factor fires when stats.get(path).edits exceeds this
FrequencyLimit == 5
\* recordAction keeps the last 1000 actions
HistoryCap == 1000

NoAction == [type |-> "null"]

\* stats.get(path)?.edits || 0
EditsOf(stats, path) == IF path \in DOMAIN stats THEN stats[path].edits ELSE 0

\* whether the call factorFn(target, text, this.fileStats) throws: frequency is
\* declared (path, stats), so its stats is the text, a string, and
\* stats.get(path) is a call of undefined
FactorThrows(factor) == factor.kind = "stats"

\* what factorFn returns for one declared factor; for frequency, what its body
\* computes from a map of file statistics
FactorRisk(factor, target, fired, stats) ==
  CASE factor.kind = "test" ->
         IF factor.name \in fired THEN Num(factor.value) ELSE Num(0)
    [] factor.kind = "stats" ->
         IF EditsOf(stats, target) > FrequencyLimit THEN Num(factor.value) ELSE Num(0)
    [] factor.kind = "async" -> NaN

RECURSIVE AddFactorsThrowIsNaN(_, _, _, _, _, _)
\* a loop in which a factor that throws leaves the risk undefined
AddFactorsThrowIsNaN(risk, factors, i, target, fired, stats) ==
  IF i > Len(factors) THEN risk
  ELSE AddFactorsThrowIsNaN(
         IF FactorThrows(factors[i]) THEN NaN
         ELSE JsAdd(risk, FactorRisk(factors[i], target, fired, stats)),
         factors, i + 1, target, fired, stats)

RECURSIVE AddFactors(_, _, _, _, _, _)
\* the loop of calculateRisk from factor i on: try { risk += factorRisk }
\* catch { }, a factor that throws being skipped
AddFactors(risk, factors, i, target, fired, stats) ==
  IF i > Len(factors) THEN risk
  ELSE AddFactors(
         IF FactorThrows(factors[i]) THEN risk
         ELSE JsAdd(risk, FactorRisk(factors[i], target, fired, stats)),
         factors, i + 1, target, fired, stats)

\* Math.max(0, Math.min(1, risk))
Clamp(risk) == JsMax(Num(0), JsMin(Num(100), risk))

calculateRisk(actionType, target, fired, stats) ==
  Clamp(AddFactors(Num(BaseRisk(actionType)), RiskFactors(actionType), 1,
                   target, fired, stats))

riskLevel(score) ==
  IF JsGe(score, Num(80)) THEN "critical"
  ELSE IF JsGe(score, Num(60)) THEN "high"
  ELSE IF JsGe(score, Num(40)) THEN "medium"
  ELSE IF JsGe(score, Num(20)) THEN "low"
  ELSE "minimal"

\* the object detect pushes for a matching pattern; raw (match[0]) is modelled
\* by the pattern that matched, the timestamp is left out
PatternCandidate(hit, stats) ==
  LET withLevel(riskScore) ==
        [type |-> hit.type, target |-> hit.target,
         confidence |-> Num(PatternConfidence(hit.type)[hit.pat]),
         riskScore |-> riskScore, riskLevel |-> riskLevel(riskScore),
         reason |-> "", raw |-> <<hit.type, hit.pat>>]
  IN withLevel(calculateRisk(hit.type, hit.target, hit.fired, stats))

RECURSIVE TypeCandidates(_, _, _, _)
\* the inner loop of detect: every pattern of the type, from pattern pat on,
\* that matches the text pushes a candidate
TypeCandidates(type, pat, text, stats) ==
  IF pat > Len(PatternConfidence(type)) THEN << >>
  ELSE LET hs == {h \in text.hits : h.type = type /\ h.pat = pat}
           here == IF hs = {} THEN << >>
                   ELSE << PatternCandidate(CHOOSE h \in hs : TRUE, stats) >>
       IN here \o TypeCandidates(type, pat + 1, text, stats)

RECURSIVE AllCandidates(_, _, _)
\* the outer loop of detect over Object.entries(this.actionDefs), from type ti on
AllCandidates(ti, text, stats) ==
  IF ti > Len(ActionTypes) THEN << >>
  ELSE TypeCandidates(ActionTypes[ti], 1, text, stats)
         \o AllCandidates(ti + 1, text, stats)

RECURSIVE checkDangerousFrom(_, _)
\* checkDangerous: the dangerous patterns that match, from pattern i on
checkDangerousFrom(i, text) ==
  IF i > Len(DangerousPatterns) THEN << >>
  ELSE (IF i \in text.dang
        THEN << [match |-> <<"dangerous", i>>,
                 severity |-> DangerousPatterns[i].severity,
                 reason |-> DangerousPatterns[i].reason] >>
        ELSE << >>) \o checkDangerousFrom(i + 1, text)

checkDangerous(text) == checkDangerousFrom(1, text)

\* DangerCandidate with the confidence of an ordinary pattern
DangerCandidateConfidence95(d) ==
  [type |-> "dangerous_command", target |-> "match",
   confidence |-> Num(95),
   riskScore |-> IF d.severity = "critical" THEN Num(100) ELSE Num(90),
   riskLevel |-> "critical", reason |-> d.reason, raw |-> d.match]

\* the object detect pushes for a dangerous match d
DangerCandidate(d) ==
  [type |-> "dangerous_command", target |-> "match",
   confidence |-> Num(100),
   riskScore |-> IF d.severity = "critical" THEN Num(100) ELSE Num(90),
   riskLevel |-> "critical", reason |-> d.reason, raw |-> d.match]

RECURSIVE MapDangers(_)
MapDangers(ds) ==
  IF ds = << >> THEN << >> ELSE << DangerCandidate(Head(ds)) >> \o MapDangers(Tail(ds))

\* x placed before the elements of equal confidence: a sort that is not stable
InsertBeforeEqual(sorted, x) ==
  LET before == {i \in 1..Len(sorted) : JsGt(sorted[i].confidence, x.confidence)}
      k == Cardinality({i \in before : \A j \in 1..i : j \in before})
  IN SubSeq(sorted, 1, k) \o << x >> \o SubSeq(sorted, k + 1, Len(sorted))

\* x placed into a list sorted by descending confidence, after the elements
\* that do not compare greater: the sort is stable
InsertByConfidence(sorted, x) ==
  LET before == {i \in 1..Len(sorted) : ~JsGt(x.confidence, sorted[i].confidence)}
      k == Cardinality({i \in before : \A j \in 1..i : j \in before})
  IN SubSeq(sorted, 1, k) \o << x >> \o SubSeq(sorted, k + 1, Len(sorted))

RECURSIVE SortByConfidence(_)
\* results.sort((a, b) => b.confidence - a.confidence)
SortByConfidence(results) ==
  IF Len(results) <= 1 THEN results
  ELSE InsertByConfidence(SortByConfidence(SubSeq(results, 1, Len(results) - 1)),
                          results[Len(results)])

\* the sorted results of detect, before the best one is recorded and returned
detectResults(text, stats) ==
  SortByConfidence(AllCandidates(1, text, stats) \o MapDangers(checkDangerous(text)))

\* a detect that reports a text with no match as an action of confidence 0
detectUnknownForNull(text, stats) ==
  LET results == detectResults(text, stats)
  IN IF Len(results) > 0 THEN results[1]
     ELSE [type |-> "unknown", target |-> "", confidence |-> Num(0),
           riskScore |-> Num(50), riskLevel |-> "medium", reason |-> "",
           raw |-> <<"unknown", 0>>]

\* what detect returns
detect(text, stats) ==
  LET results == detectResults(text, stats)
  IN IF Len(results) > 0 THEN results[1] ELSE NoAction

\* a trim that keeps the first 1000 actions: slice(0, 1000)
recordHistoryKeepFirst(h, action) ==
  LET pushed == Append(h, action)
  IN IF Len(pushed) > HistoryCap THEN SubSeq(pushed, 1, HistoryCap) ELSE pushed

\* recordAction's update of this.history, with the trim to the last 1000
recordHistory(h, action) ==
  LET pushed == Append(h, action)
  IN IF Len(pushed) > HistoryCap
     THEN SubSeq(pushed, Len(pushed) - HistoryCap + 1, Len(pushed))
     ELSE pushed

IsFileType(type) == type \in {"file_create", "file_edit", "file_delete"}

\* recordAction's update of this.fileStats
recordFileStats(stats, action) ==
  IF action.target # "" /\ IsFileType(action.type)
  THEN LET old == IF action.target \in DOMAIN stats THEN stats[action.target]
                  ELSE [creates |-> 0, edits |-> 0, deletes |-> 0]
           new == [creates |-> old.creates + (IF action.type = "file_create" THEN 1 ELSE 0),
                   edits |-> old.edits + (IF action.type = "file_edit" THEN 1 ELSE 0),
                   deletes |-> old.deletes + (IF action.type = "file_delete" THEN 1 ELSE 0)]
       IN [t \in DOMAIN stats \cup {action.target} |->
             IF t = action.target THEN new ELSE stats[t]]
  ELSE stats

\* recordAction's update of this.commandStats; the vocabulary's targets are
\* single words, so target.split(' ')[0] is the target
recordCommandStats(cstats, action) ==
  IF action.type = "terminal_command"
  THEN [c \in DOMAIN cstats \cup {action.target} |->
          IF c = action.target
          THEN (IF c \in DOMAIN cstats THEN cstats[c] ELSE 0) + 1
          ELSE cstats[c]]
  ELSE cstats


-----------------------------------------------------------------------------
(* SmartDetector.shouldAutoAccept *)

\* 1 - x
JsOneMinus(x) == IF x.nan THEN NaN ELSE [nan |-> FALSE, v |-> 100 - x.v, d |-> 0 - x.d]

\* exceedsAutoAcceptRisk with >= for >
exceedsAutoAcceptRiskFrom07(action) == JsGe(action.riskScore, Num(70))

\* exceedsAutoAcceptRisk with the threshold of the critical level
exceedsAutoAcceptRiskAbove08(action) == JsGt(action.riskScore, Num(80))

\* action.riskScore > 0.7: an auto-accepted type is still refused
exceedsAutoAcceptRisk(action) == JsGt(action.riskScore, Num(70))

\* modeConfig.timeout_seconds || 2
DefaultTimeout == 2

\* belowDefaultRisk with <= for <
belowDefaultRiskUpTo05(action) == JsGe(Num(50), action.riskScore)

\* action.riskScore < 0.5: the default rule accepts
belowDefaultRisk(action) == JsLt(action.riskScore, Num(50))

\* The recommendation for an action under config[config.mode].  accept is
\* "true", "false" or "quick_confirm"; a key the returned object does not have
\* is NaN (confidence) or 0 (timeout)
shouldAutoAccept(action, cfg) ==
  IF action.type = "dangerous_command" \/ action.riskLevel = "critical"
  THEN [accept |-> "false", reason |-> <<"Critical risk detected">>,
        confidence |-> Num(100), timeout |-> 0]
  ELSE IF action.type \in cfg.require_approval
  THEN [accept |-> "false", reason |-> <<"Action type requires approval">>,
        confidence |-> Num(90), timeout |-> 0]
  ELSE IF action.type \in cfg.auto_accept
  THEN (IF exceedsAutoAcceptRisk(action)
        THEN [accept |-> "false", reason |-> <<"High risk score: ", action.riskScore>>,
              confidence |-> action.riskScore, timeout |-> 0]
        ELSE [accept |-> "true", reason |-> <<"Action type auto-accepted">>,
              confidence |-> Num(90), timeout |-> 0])
  ELSE IF action.type \in cfg.quick_confirm
  THEN [accept |-> "quick_confirm", reason |-> <<"Quick confirmation">>,
        confidence |-> NaN,
        timeout |-> IF cfg.timeout_seconds # 0 THEN cfg.timeout_seconds
                    ELSE DefaultTimeout]
  ELSE [accept |-> IF belowDefaultRisk(action) THEN "true" ELSE "false",
        reason |-> <<"Risk score: ", action.riskScore>>,
        confidence |-> JsOneMinus(action.riskScore), timeout |-> 0]

\* a shouldAutoAccept that records the action it is asked about, as detect does
shouldAutoAcceptCallRecording(action, cfg, hist) ==
  [recommendation |-> shouldAutoAccept(action, cfg), action |-> action,
   config |-> cfg, history |-> recordHistory(hist, action)]

\* a call of shouldAutoAccept: what it returns, and its arguments and
\* this.history as the call leaves them (the body assigns to none of them)
shouldAutoAcceptCall(action, cfg, hist) ==
  [recommendation |-> shouldAutoAccept(action, cfg), action |-> action,
   config |-> cfg, history |-> hist]

-----------------------------------------------------------------------------
(* Supervisor.handleAction, supervisor-v2.js *)

\* what handleAction returns
handleActionV2Result(action, cfg) ==
  LET recommendation == shouldAutoAccept(action, cfg)
  IN IF action.riskLevel = "critical" \/ action.type = "dangerous_command" THEN "deny"
     ELSE IF recommendation.accept = "true" THEN "accept"
     ELSE IF recommendation.accept = "quick_confirm" THEN "accept"
     ELSE IF recommendation.accept = "false" THEN "pause"
     ELSE "accept"

\* what handleAction makes of this.sessionStats
handleActionV2Stats(action, cfg, stats) ==
  LET recommendation == shouldAutoAccept(action, cfg)
  IN IF action.riskLevel = "critical" \/ action.type = "dangerous_command"
     THEN [stats EXCEPT !.actionsDenied = @ + 1]
     ELSE IF recommendation.accept = "true"
     THEN [stats EXCEPT !.actionsApproved = @ + 1,
                        !.filesChanged = IF IsFileType(action.type) THEN @ + 1 ELSE @]
     ELSE IF recommendation.accept = "quick_confirm"
     THEN [stats EXCEPT !.actionsApproved = @ + 1]
     ELSE stats

\* the number of slack.requestApproval calls handleAction makes
handleActionV2Requests(action, cfg) ==
  IF action.riskLevel = "critical" \/ action.type = "dangerous_command" THEN 1
  ELSE IF shouldAutoAccept(action, cfg).accept = "false" /\ cfg.mode = "autopilot" THEN 1
  ELSE 0

-----------------------------------------------------------------------------
(* The older Supervisor (supervisor.js) and its ActionClassifier *)

\* this.patterns of ActionClassifier: the types in table order
ClassifierTypes ==
  <<"file_create", "file_edit", "file_delete", "terminal_command", "npm_install",
    "package_removal", "git_add", "git_commit", "git_push", "database_migration",
    "env_modification", "approval_prompt">>

\* the number of patterns of each type of ActionClassifier
ClassifierPatternCount ==
  <<3, 4, 3, 4, 4, 3, 2, 2, 2, 4, 2, 4>>

RECURSIVE classifierDetectFrom(_, _, _)
\* ActionClassifier.detect: the first pattern, in table order, that matches
classifierDetectFrom(ti, pat, text) ==
  IF ti > Len(ClassifierTypes) THEN NoAction
  ELSE IF pat > ClassifierPatternCount[ti] THEN classifierDetectFrom(ti + 1, 1, text)
  ELSE IF <<ti, pat>> \in text.chits
  THEN [type |-> ClassifierTypes[ti], target |-> "", confidence |-> NaN,
        riskScore |-> NaN, riskLevel |-> "undefined", reason |-> "",
        raw |-> <<ClassifierTypes[ti], pat>>]
  ELSE classifierDetectFrom(ti, pat + 1, text)

classifierDetect(text) == classifierDetectFrom(1, 1, text)

\* what the older handleAction returns
handleActionV1Result(action, cfg) ==
  IF action.type \in cfg.auto_accept THEN "accept"
  ELSE IF action.type \in cfg.require_approval THEN "pause"
  ELSE IF action.type \in cfg.quick_confirm THEN "accept"
  ELSE IF cfg.stop_on.unknown_action /\ cfg.mode = "autopilot" THEN "stop"
  ELSE "accept"

\* what the older handleAction makes of this.sessionStats
handleActionV1Stats(action, cfg, stats) ==
  IF action.type \in cfg.auto_accept THEN [stats EXCEPT !.actionsApproved = @ + 1]
  ELSE IF action.type \in cfg.require_approval THEN stats
  ELSE IF action.type \in cfg.quick_confirm THEN [stats EXCEPT !.actionsApproved = @ + 1]
  ELSE stats


-----------------------------------------------------------------------------
(* Inputs: configurations and texts *)

\* the action types the lists of a configuration may name
AllTypes ==
  {ActionTypes[i] : i \in 1..Len(ActionTypes)}
    \cup {ClassifierTypes[i] : i \in 1..Len(ClassifierTypes)}
    \cup {"dangerous_command"}

\* defaultConfig.autopilot.stop_on.error_count
DefaultErrorCount == 3

\* defaultConfig of loadConfig with mode set by the CLI command; the lists are
\* those of config[config.mode]
DefaultConfig(mode) ==
  IF mode = "autopilot"
  THEN [mode |-> "autopilot",
        auto_accept |-> {"file_create", "file_edit", "terminal_command"},
        require_approval |-> {"file_delete", "git_push", "database_migration"},
        quick_confirm |-> {},
        timeout_seconds |-> 0,
        stop_on |-> [error_count |-> DefaultErrorCount, unknown_action |-> TRUE]]
  ELSE [mode |-> "copilot",
        auto_accept |-> {"file_create", "file_edit"},
        require_approval |-> {"file_delete", "git_push"},
        quick_confirm |-> {"terminal_command", "npm_install"},
        timeout_seconds |-> 0,
        stop_on |-> [error_count |-> DefaultErrorCount, unknown_action |-> TRUE]]

\* a user's list: absent or empty, or naming every type
ListChoices == {{}, AllTypes}

\* the configurations a session is started with: the defaults, and every way
\* of putting the types in or out of each list, in both modes
Configs ==
  {DefaultConfig(m) : m \in {"autopilot", "copilot"}}
    \cup {[DefaultConfig("copilot") EXCEPT !.timeout_seconds = 5]}
    \cup {[DefaultConfig(m) EXCEPT !.auto_accept = a, !.require_approval = r,
                                   !.quick_confirm = q] :
            m \in {"autopilot", "copilot"}, a \in ListChoices, r \in ListChoices,
            q \in ListChoices}

\* the older handleAction also reads stop_on.unknown_action
ConfigsV1 ==
  Configs \cup {[c EXCEPT !.stop_on.unknown_action = FALSE] : c \in Configs}

\* the targets of the vocabulary
Targets == {"f1"}

\* the matches a pattern can have: a target when it has a capture group
PatternHits ==
  {[type |-> ActionTypes[ti], pat |-> p, target |-> t, fired |-> {}] :
     ti \in 1..Len(ActionTypes), p \in 1..6, t \in Targets \cup {""}}

TestFactors(type) ==
  {RiskFactors(type)[i].name : i \in {j \in 1..Len(RiskFactors(type)) :
                                         RiskFactors(type)[j].kind = "test"}}

\* the risk-factor tests that fire: at most two, or all of the type's
FiredChoices(type) ==
  {f \in SUBSET TestFactors(type) : Cardinality(f) <= 2} \cup {TestFactors(type)}

\* every pattern of actionDefs matching with no factor firing
PlainHits ==
  {h \in PatternHits :
     /\ h.pat <= Len(PatternConfidence(h.type))
     /\ (h.target # "") = HasGroup(h.type, h.pat)}

\* the matches the texts are made of: PlainHits, and the first pattern of every
\* type with each of its FiredChoices
Hits ==
  PlainHits
    \cup UNION {{[type |-> ActionTypes[ti], pat |-> 1,
                  target |-> IF HasGroup(ActionTypes[ti], 1) THEN "f1" ELSE "",
                  fired |-> f] : f \in FiredChoices(ActionTypes[ti])} :
                ti \in 1..Len(ActionTypes)}

\* the sets of dangerous patterns a text with an action match also matches: a
\* critical one, a high one
DangerWithHit == {{1}, {6}}

\* the sets of dangerous patterns a text with no action match matches
DangerAlone == {{i} : i \in 1..Len(DangerousPatterns)} \cup {{1, 6}, {6, 7}}

NoText == [hits |-> {}, dang |-> {}, chits |-> {}]

\* the text "Deleting file: .env": only the first file_delete pattern matches
\* it; "file\s+" does not match "file:", so the capture group takes "file:",
\* and none of recursive, force, glob_pattern and important_file fires
DeletingFileEnv ==
  [NoText EXCEPT !.hits = {[type |-> "file_delete", pat |-> 1, target |-> "file:",
                            fired |-> {}]}]

\* the text "npm install lodash": only the first npm_install pattern matches
\* it, with target "lodash"; neither global nor dev_only fires
NpmInstallLodash ==
  [NoText EXCEPT !.hits = {[type |-> "npm_install", pat |-> 1, target |-> "lodash",
                            fired |-> {}]}]

\* the text "echo hi > out.txt": the third (> file.ext) and the fifth (echo ...
\* > file) file_create pattern match it, both with target "out.txt"; no other
\* pattern does, and none of path_depth, extension and system_path fires
EchoToFile ==
  [NoText EXCEPT !.hits = {[type |-> "file_create", pat |-> 3, target |-> "out.txt",
                            fired |-> {}],
                           [type |-> "file_create", pat |-> 5, target |-> "out.txt",
                            fired |-> {}]}]

\* the text "Creating file: a.js" as ActionClassifier sees it: the first
\* (Creating file: ...) and the third (Creating ... .js) file_create pattern
\* match it
CreatingFileAJs == [NoText EXCEPT !.chits = {<<1, 1>>, <<1, 3>>}]

\* the text "git commit -m fix && git push origin main": both git_commit
\* patterns match it (0.95 and 0.8) and so does the first git_push pattern
\* (0.95, target "origin"); no risk factor fires
GitCommitAndPush ==
  [NoText EXCEPT !.hits = {[type |-> "git_commit", pat |-> 1,
                            target |-> "fix && git push origin main", fired |-> {}],
                           [type |-> "git_commit", pat |-> 2,
                            target |-> "-m fix && git push origin main", fired |-> {}],
                           [type |-> "git_push", pat |-> 1, target |-> "origin",
                            fired |-> {}]}]

\* the text "touch a.js && git push origin main": the second file_create
\* pattern (0.9) and the first git_push pattern (0.95) match it
TouchAndPush ==
  [NoText EXCEPT !.hits = {[type |-> "file_create", pat |-> 2, target |-> "a.js",
                            fired |-> {}],
                           [type |-> "git_push", pat |-> 1, target |-> "origin",
                            fired |-> {}]}]

\* the chunks SmartDetector.detect is given
Texts ==
  {NoText, DeletingFileEnv, NpmInstallLodash, EchoToFile, GitCommitAndPush,
   TouchAndPush}
    \cup {[NoText EXCEPT !.hits = {h}] : h \in Hits}
    \cup {[NoText EXCEPT !.dang = d] : d \in DangerAlone}
    \cup {[NoText EXCEPT !.hits = {h}, !.dang = d] : h \in PlainHits, d \in DangerWithHit}

\* the chunks ActionClassifier.detect is given: no match, or one pattern's
ClassifierTexts ==
  {NoText, CreatingFileAJs}
    \cup {[NoText EXCEPT !.chits = {<<ti, p>>}] :
            ti \in 1..Len(ClassifierTypes), p \in 1..4}

\* number of chunks of output a run of the model processes
MaxChunks == 1

\* number of calls of shouldAutoAccept on one action
MaxCalls == 2

\* the same for the older supervisor, whose stdout handler is given the chunks
\* of a task one after the other
MaxChunksV1 == 2

-----------------------------------------------------------------------------
(* The detection and policy pipeline *)

\* bound of the approvals registered
MaxApprovals == 1

\* the ids approve/deny messages carry: those registered, and one never registered
ApprovalIds == 1..(MaxApprovals + 1)

NoMessage == [kind |-> "none", id |-> 0, resolved |-> FALSE]

NewStats ==
  [tasksCompleted |-> 0, tasksFailed |-> 0, actionsApproved |-> 0,
   actionsDenied |-> 0, errors |-> 0, filesChanged |-> 0]

\* Dashboard.state.insights after construction: null
NoInsights == [published |-> FALSE, totalActions |-> 0]

\* SmartDetector.getInsights(): the summary of the detector's history
getInsights(hist) == [published |-> TRUE, totalActions |-> Len(hist)]

\* Dashboard.updateStats(stats): state.stats = {...state.stats, ...stats}, a copy
\* of the fields as they are now
updateStats(old, stats) ==
  [f \in DOMAIN old |-> IF f \in DOMAIN stats THEN stats[f] ELSE old[f]]

\* no sessionComplete broadcast was made
NoReport ==
  [sent |-> FALSE, broadcast |-> NewStats, sessionStats |-> NewStats,
   insights |-> NoInsights]

\* Dashboard.sessionComplete(): broadcast('sessionComplete', state.stats), noted
\* with the supervisor's sessionStats and the insights published at that moment
sessionComplete(dstats, stats, insights) ==
  [sent |-> TRUE, broadcast |-> dstats, sessionStats |-> stats, insights |-> insights]

\* how many entries Dashboard.addAction keeps in state.actions
ActionsCap == 100

\* Dashboard.state after construction, stats and insights apart; currentTask
\* and the entries of queue are references to the task objects of the
\* TaskQueue (their ids; 0: null)
NewDashboard ==
  [mode |-> "idle", currentTask |-> 0, queue |-> << >>, actions |-> << >>,
   sessionComplete |-> FALSE]

\* Dashboard.updateMode(mode), the state part
updateMode(d, mode) == [d EXCEPT !.mode = mode]

\* Dashboard.updateTask(task), the state part
updateTask(d, task) == [d EXCEPT !.currentTask = task]

\* Dashboard.updateQueue(queue), the state part
updateQueue(d, q) == [d EXCEPT !.queue = q]

\* Dashboard.addAction(action), the state part: unshift, keep the first 100
addAction(d, action) ==
  [d EXCEPT !.actions = IF Len(@) + 1 > ActionsCap
                        THEN SubSeq(<<action>> \o @, 1, ActionsCap)
                        ELSE <<action>> \o @]

\* JSON.stringify of a task reference: the task object as it is now
SerializeTask(task, ts) ==
  IF task = 0 THEN [id |-> 0, status |-> "null"]
  ELSE [id |-> task, status |-> ts[task].status]

\* JSON.stringify of an array of task references
SerializeQueue(q, ts) == [i \in DOMAIN q |-> SerializeTask(q[i], ts)]

\* JSON.stringify({ type, data })
Message(type, data) == [type |-> type, data |-> data]

\* JSON.stringify of this.state
Snapshot(d, stats, insights, ts) ==
  [mode |-> d.mode, currentTask |-> SerializeTask(d.currentTask, ts),
   queue |-> SerializeQueue(d.queue, ts), actions |-> d.actions,
   stats |-> stats, insights |-> insights, sessionComplete |-> d.sessionComplete]

\* Dashboard.broadcast(type, data): send to every client that is open
broadcast(cs, type, data) ==
  [i \in DOMAIN cs |-> IF cs[i].open
                       THEN [cs[i] EXCEPT !.inbox = Append(@, Message(type, data))]
                       ELSE cs[i]]

\* a connection handler that adds the client and sends it nothing
connectionNoSnapshot(cs, snapshot) == Append(cs, [open |-> TRUE, inbox |-> << >>])

\* the 'connection' handler of Dashboard.start: clients.add(ws), then
\* ws.send of the 'state' message
connection(cs, snapshot) ==
  Append(cs, [open |-> TRUE, inbox |-> <<Message("state", snapshot)>>])

\* an output line of the autopilot child as runAutopilot classifies it:
\* isRunningLine, isCompletedLine, isFailedLine, isFalsePositive of its text
OutputLine(text, isRunning, isCompleted, isFailed, isFalsePositive) ==
  [text |-> text, running |-> isRunning, completed |-> isCompleted,
   failed |-> isFailed, falsePositive |-> isFalsePositive]

\* includes('Running:')
RunningLine == OutputLine("Running: t1", TRUE, FALSE, FALSE, FALSE)
\* includes('Task completed')
CompletedLine == OutputLine("Task completed with code 0", FALSE, TRUE, FALSE, FALSE)
\* includes('Task failed')
FailedLine == OutputLine("Task failed: t1", FALSE, FALSE, TRUE, FALSE)
\* /^Error:/i and includes('Task completed')
ErrorCompletedLine ==
  OutputLine("Error: Task completed with warnings", FALSE, TRUE, TRUE, FALSE)
\* includes('Task failed') and /error\s*handling/i
FalsePositiveLine ==
  OutputLine("Task failed: add error handling", FALSE, FALSE, TRUE, TRUE)
\* none of the patterns
PlainLine == OutputLine("npm install", FALSE, FALSE, FALSE, FALSE)

OutputLines ==
  {RunningLine, CompletedLine, FailedLine, ErrorCompletedLine, FalsePositiveLine,
   PlainLine}

\* ws.send of a taskUpdate or taskResult for tasks[index], while handling the
\* line numbered `line` (0: before any output)
TaskMessage(type, index, status, line) ==
  [type |-> type, task |-> index, status |-> status, line |-> line]

\* runAutopilot after the child is spawned, with n tasks: currentTaskIndex = 0
\* and, if there is a task, the first one is reported running
TrackerStart(n) ==
  [tasks |-> n, currentTaskIndex |-> 0, taskStarted |-> n > 0, lines |-> 0,
   sent |-> IF n > 0 THEN <<TaskMessage("taskUpdate", 0, "running", 0)>> ELSE << >>]

\* the block "if (isRunningLine && !taskStarted)"
TrackRunning(tr, line) ==
  IF line.running /\ ~tr.taskStarted /\ tr.currentTaskIndex < tr.tasks
  THEN [tr EXCEPT !.sent = Append(@, TaskMessage("taskUpdate", tr.currentTaskIndex,
                                                 "running", tr.lines)),
                  !.taskStarted = TRUE]
  ELSE tr

\* the body of the completion and failure blocks: taskResult and taskUpdate
\* with the status, currentTaskIndex++, and the next task reported running if
\* there is one
FinishTask(tr, status) ==
  LET sent1 == tr.sent \o
                 <<TaskMessage("taskResult", tr.currentTaskIndex, status, tr.lines),
                   TaskMessage("taskUpdate", tr.currentTaskIndex, status, tr.lines)>>
      next == tr.currentTaskIndex + 1
  IN [tr EXCEPT !.currentTaskIndex = next,
                !.taskStarted = next < tr.tasks,
                !.sent = IF next < tr.tasks
                         THEN Append(sent1, TaskMessage("taskUpdate", next, "running",
                                                        tr.lines))
                         ELSE sent1]

\* the block "if (isCompletedLine && currentTaskIndex < tasks.length && taskStarted)"
TrackCompleted(tr, line) ==
  IF line.completed /\ tr.currentTaskIndex < tr.tasks /\ tr.taskStarted
  THEN FinishTask(tr, "complete")
  ELSE tr

\* the block "if (isFailedLine && !isFalsePositive && currentTaskIndex <
\* tasks.length && taskStarted)"
TrackFailed(tr, line) ==
  IF line.failed /\ ~line.falsePositive /\ tr.currentTaskIndex < tr.tasks
     /\ tr.taskStarted
  THEN FinishTask(tr, "failed")
  ELSE tr

\* one iteration of "for (const line of lines)": the three blocks in order,
\* then the log entry (the output collected for the task and the durations
\* are not kept)
TrackLine(tr, line) ==
  LET numbered == [tr EXCEPT !.lines = @ + 1]
      done == TrackFailed(TrackCompleted(TrackRunning(numbered, line), line), line)
  IN [done EXCEPT !.sent = Append(@, [type |-> "log", line |-> done.lines,
                                      message |-> line.text])]

\* the stdout 'data' handler on a chunk: its lines in order
RECURSIVE TrackLines(_, _, _)
TrackLines(tr, chunk, k) ==
  IF k > Len(chunk) THEN tr
  ELSE TrackLines(TrackLine(tr, chunk[k]), chunk, k + 1)

\* an AutopilotRunner on which start has not been called
NoRunner ==
  [tasks |-> << >>, readyState |-> "none", wsNull |-> TRUE, settled |-> FALSE,
   outcome |-> "pending", settleCalls |-> 0, messages |-> 0, errors |-> 0]

\* AutopilotRunner.start(tasks) up to the return of its promise: this.tasks =
\* tasks, settled = false, this.ws = new WebSocket
RunnerStarted(statuses) ==
  [NoRunner EXCEPT !.tasks = statuses, !.readyState = "connecting",
                   !.wsNull = FALSE]

\* a safeResolve that calls resolve() whether settled or not
safeResolveUnguarded(r) ==
  [r EXCEPT !.settled = TRUE, !.settleCalls = @ + 1,
            !.outcome = IF @ = "pending" THEN "resolved" ELSE @]

\* safeResolve of start
safeResolve(r) ==
  IF r.settled THEN r
  ELSE [r EXCEPT !.settled = TRUE, !.settleCalls = @ + 1, !.outcome = "resolved"]

\* safeReject of start
safeReject(r) ==
  IF r.settled THEN r
  ELSE [r EXCEPT !.settled = TRUE, !.settleCalls = @ + 1, !.outcome = "rejected"]

\* the loop of onclose over the unfinished tasks: task.status = 'failed'
failUnfinished(statuses) ==
  [i \in DOMAIN statuses |-> IF statuses[i] \in {"pending", "running"} THEN "failed"
                             ELSE statuses[i]]

\* handleMessage on a taskUpdate: the task with that id, if any, takes the status
taskUpdate(statuses, taskId, status) ==
  [i \in DOMAIN statuses |-> IF i = taskId THEN status ELSE statuses[i]]

\* the Commander is not in use: no task tracked, no runner started
CommanderIdle ==
  /\ tracker = TrackerStart(0)
  /\ runner = NoRunner

\* the session state after construction: no task loaded, no child, not paused
SupervisorIdle ==
  /\ tasks = << >>
  /\ loaded = FALSE
  /\ queue = << >>
  /\ pc = "idle"
  /\ idx = 0
  /\ procs = << >>
  /\ activeProcess = 0
  /\ isPaused = FALSE
  /\ lines = 0
  /\ pendingApprovals = {}
  /\ registered = 0
  /\ messages = 0
  /\ lastMessage = NoMessage
  /\ verdicts = [id \in ApprovalIds |-> << >>]
  /\ dashStats = NewStats
  /\ dashInsights = NoInsights
  /\ finalReport = NoReport
  /\ dashState = NewDashboard
  /\ clients = << >>

\* the state of everything but the detector after construction
SessionIdle == SupervisorIdle /\ CommanderIdle

\* the state after new Supervisor(config), for either Supervisor class
Init ==
  /\ impl \in {"v2", "v1"}
  /\ config \in IF impl = "v2" THEN Configs ELSE ConfigsV1
  /\ history = << >>
  /\ fileStats = << >>
  /\ commandStats = << >>
  /\ sessionStats = NewStats
  /\ approvalRequests = 0
  /\ lastText = NoText
  /\ lastAction = NoAction
  /\ lastResult = "none"
  /\ chunks = 0
  /\ statsBefore = NewStats
  /\ outputAfterPause = FALSE
  /\ recommendations = << >>
  /\ rawTasks = << >>
  /\ SessionIdle

\* SmartDetector.detect(text), with recordAction when there is a result; the
\* action detected before has been handled
Detect(text) ==
  /\ impl = "v2"
  /\ chunks < MaxChunks
  /\ lastAction = NoAction \/ lastResult # "none"
  /\ \E action \in {detect(text, fileStats)} :
        /\ lastAction' = action
        /\ IF action # NoAction
           THEN /\ history' = recordHistory(history, action)
                /\ fileStats' = recordFileStats(fileStats, action)
                /\ commandStats' = recordCommandStats(commandStats, action)
           ELSE UNCHANGED <<history, fileStats, commandStats>>
  /\ lastText' = text
  /\ lastResult' = "none"
  /\ chunks' = chunks + 1
  /\ statsBefore' = sessionStats
  /\ outputAfterPause' = (outputAfterPause \/ lastResult = "pause")
  /\ recommendations' = << >>
  /\ UNCHANGED <<impl, config, sessionStats, approvalRequests, sessionVars>>

\* Supervisor.handleAction(action) of supervisor-v2.js, on the detected action
HandleAction ==
  /\ impl = "v2"
  /\ lastAction # NoAction
  /\ lastResult = "none"
  /\ lastResult' = handleActionV2Result(lastAction, config)
  /\ sessionStats' = handleActionV2Stats(lastAction, config, sessionStats)
  /\ approvalRequests' = approvalRequests + handleActionV2Requests(lastAction, config)
  /\ dashState' = addAction(dashState, lastAction)
  /\ clients' = broadcast(clients, "action", lastAction)
  /\ UNCHANGED <<impl, config, history, fileStats, commandStats, lastText,
                 lastAction, chunks, statsBefore, outputAfterPause, recommendations,
                 queueVars, procVars, isPaused, lines, approvalVars, dashStats,
                 dashInsights, finalReport, commanderVars>>

\* the stdout 'data' handler of the older Supervisor.runSingle: classify the
\* chunk and, if an action is detected, handleAction it
StdoutDataV1(text) ==
  /\ impl = "v1"
  /\ chunks < MaxChunksV1
  /\ \E action \in {classifierDetect(text)} :
        /\ lastAction' = action
        /\ IF action # NoAction
           THEN /\ lastResult' = handleActionV1Result(action, config)
                /\ sessionStats' = handleActionV1Stats(action, config, sessionStats)
           ELSE /\ lastResult' = "none"
                /\ UNCHANGED sessionStats
  /\ lastText' = text
  /\ chunks' = chunks + 1
  /\ statsBefore' = sessionStats
  /\ outputAfterPause' = (outputAfterPause \/ lastResult = "pause")
  /\ UNCHANGED <<impl, config, history, fileStats, commandStats, approvalRequests,
                 recommendations, sessionVars>>

\* a call detector.shouldAutoAccept(lastAction, config), as handleAction makes
\* it: the recommendation is returned, nothing is assigned
ShouldAutoAccept ==
  /\ impl = "v2"
  /\ lastAction # NoAction
  /\ Len(recommendations) < MaxCalls
  /\ \E call \in {shouldAutoAcceptCall(lastAction, config, history)} :
        /\ recommendations' = Append(recommendations, call.recommendation)
        /\ lastAction' = call.action
        /\ config' = call.config
        /\ history' = call.history
  /\ UNCHANGED <<impl, fileStats, commandStats, sessionStats, approvalRequests,
                 lastText, lastResult, chunks, statsBefore, outputAfterPause,
                 sessionVars>>

Next ==
  \/ \E text \in Texts : Detect(text)
  \/ HandleAction
  \/ \E text \in ClassifierTexts : StdoutDataV1(text)

Spec == Init /\ [][Next]_vars

\* detection and handleAction, with further calls of shouldAutoAccept on the
\* detected action
NextCalls ==
  \/ Next
  \/ ShouldAutoAccept

SpecCalls == Init /\ [][NextCalls]_vars

-----------------------------------------------------------------------------
(* The SmartDetector on its own, detect called again and again *)

\* number of detect calls of a run from a new detector, and of a run that
\* goes on from a long session
MaxDetectCalls == 8
MaxLongCalls == 3

\* the text "Editing file <target>": the first file_edit pattern, no factor's
\* test firing
EditingFile(target) ==
  [NoText EXCEPT !.hits = {[type |-> "file_edit", pat |-> 1, target |-> target,
                            fired |-> {}]}]

\* the text "Creating file: f1"
CreatingFileF1 ==
  [NoText EXCEPT !.hits = {[type |-> "file_create", pat |-> 1, target |-> "f1",
                            fired |-> {}]}]

\* the text "patch f1 && git push": the fourth file_edit pattern (0.85, target
\* f1) and the first git_push pattern (0.95, no target)
PatchF1AndPush ==
  [NoText EXCEPT !.hits = {[type |-> "file_edit", pat |-> 4, target |-> "f1",
                            fired |-> {}],
                           [type |-> "git_push", pat |-> 1, target |-> "",
                            fired |-> {}]}]

DetectorTexts == {EditingFile("f1"), EditingFile("f2"), CreatingFileF1, PatchF1AndPush}

Digits == <<"0", "1", "2", "3", "4", "5", "6", "7", "8", "9">>

RECURSIVE Numeral(_)
Numeral(n) ==
  IF n < 10 THEN Digits[n + 1] ELSE Numeral(n \div 10) \o Digits[(n % 10) + 1]

\* the i-th of a series of distinct file names: file1, file2, ...
TargetName(i) == "file" \o Numeral(i)

\* the texts of a long session: nothing to detect, an edit of the session's
\* first file, and edits of files not seen before
LongTexts ==
  {NoText, EditingFile(TargetName(1))}
    \cup {EditingFile(TargetName(HistoryCap + j)) : j \in 1..MaxLongCalls}

\* detector.detect(text), the `calls`-th call at most `max`
DetectorCall(text, max) ==
  /\ chunks < max
  /\ \E action \in {detect(text, fileStats)} :
        /\ lastAction' = action
        /\ IF action # NoAction
           THEN /\ history' = recordHistory(history, action)
                /\ fileStats' = recordFileStats(fileStats, action)
                /\ commandStats' = recordCommandStats(commandStats, action)
           ELSE UNCHANGED <<history, fileStats, commandStats>>
  /\ lastText' = text
  /\ chunks' = chunks + 1
  /\ UNCHANGED <<impl, config, sessionStats, approvalRequests, lastResult,
                 statsBefore, outputAfterPause, recommendations, sessionVars>>

\* the state after new SmartDetector()
InitDetector ==
  /\ Init
  /\ impl = "v2"
  /\ config = DefaultConfig("autopilot")

NextDetector == \E text \in DetectorTexts : DetectorCall(text, MaxDetectCalls)

SpecDetector == InitDetector /\ [][NextDetector]_vars

\* the detector after detect("Editing file file<i>") for i = 1..n, the n
\* files distinct
InitLongSession ==
  /\ impl = "v2"
  /\ config = DefaultConfig("autopilot")
  /\ \E n \in (HistoryCap - 2)..HistoryCap :
        /\ history = [i \in 1..n |->
                        detect(EditingFile(TargetName(i)), << >>)]
        /\ fileStats = [t \in {TargetName(i) : i \in 1..n} |->
                          [creates |-> 0, edits |-> 1, deletes |-> 0]]
  /\ commandStats = << >>
  /\ sessionStats = NewStats
  /\ approvalRequests = 0
  /\ lastText = EditingFile(TargetName(Len(history)))
  /\ lastAction = history[Len(history)]
  /\ lastResult = "none"
  /\ chunks = 0
  /\ statsBefore = NewStats
  /\ outputAfterPause = FALSE
  /\ recommendations = << >>
  /\ rawTasks = << >>
  /\ SessionIdle

NextLongSession == \E text \in LongTexts : DetectorCall(text, MaxLongCalls)

SpecLongSession == InitLongSession /\ [][NextLongSession]_vars


-----------------------------------------------------------------------------
(* TaskQueue (tasks.js) *)

Priorities == {"high", "normal", "low"}

\* const priorityOrder = { high: 0, normal: 1, low: 2 }; -1 stands for the
\* undefined a missing key gives
priorityOrder(priority) ==
  CASE priority = "high" -> 0
    [] priority = "normal" -> 1
    [] priority = "low" -> 2
    [] OTHER -> -1

\* x || 1 on a number or undefined: 0 and undefined are falsy
JsOrOne(x) == IF x = 0 \/ x = -1 THEN 1 ELSE x

\* the key the comparator of load sorts on: priorityOrder[t.priority] || 1
SortKey(task) == JsOrOne(priorityOrder(task.priority))

\* Array.prototype.sort is stable: x goes after every element whose key is
\* not greater
InsertByPriority(sorted, x) ==
  LET after == {i \in 1..Len(sorted) : SortKey(sorted[i]) <= SortKey(x)}
      k == IF after = {} THEN 0 ELSE CHOOSE i \in after : \A j \in after : j <= i
  IN SubSeq(sorted, 1, k) \o <<x>> \o SubSeq(sorted, k + 1, Len(sorted))

RECURSIVE SortByPriority(_)
\* this.tasks.sort((a, b) => key(a) - key(b))
SortByPriority(ts) ==
  IF ts = << >> THEN << >>
  ELSE InsertByPriority(SortByPriority(SubSeq(ts, 1, Len(ts) - 1)), ts[Len(ts)])

\* entries of a task file that are not tasks: an object with neither prompt
\* nor description (and no priority), and a null
NoPromptEntry == "no_prompt"
NullEntry == "null"

\* whether load throws on the parsed file: the comparator of the sort and the
\* map that assigns the ids read a property of every entry, a TypeError on null
loadThrows(raw) == \E i \in DOMAIN raw : raw[i] = NullEntry

\* parseTaskFile: one task per entry of the file, orig its position in the file
parseTaskFile(raw) == [i \in 1..Len(raw) |-> [orig |-> i, priority |-> raw[i]]]

\* TaskQueue.load: parse, sort by priority, give each task the id of its
\* position and the status pending
load(raw) ==
  LET sorted == SortByPriority(parseTaskFile(raw))
  IN [i \in 1..Len(sorted) |->
        [id |-> i, orig |-> sorted[i].orig, priority |-> sorted[i].priority,
         status |-> "pending"]]

\* TaskQueue.getTasks after load: the ids of the pending tasks, in order
getTasks(ts) ==
  LET F[i \in 0..Len(ts)] ==
        IF i = 0 THEN << >>
        ELSE IF ts[i].status = "pending" THEN Append(F[i - 1], ts[i].id)
        ELSE F[i - 1]
  IN F[Len(ts)]

\* TaskQueue.markComplete(taskId)
markComplete(ts, taskId) ==
  [i \in DOMAIN ts |-> IF ts[i].id = taskId THEN [ts[i] EXCEPT !.status = "complete"]
                       ELSE ts[i]]

\* TaskQueue.markFailed(taskId, error)
markFailed(ts, taskId) ==
  [i \in DOMAIN ts |-> IF ts[i].id = taskId THEN [ts[i] EXCEPT !.status = "failed"]
                       ELSE ts[i]]

-----------------------------------------------------------------------------
(* Supervisor session (supervisor-v2.js): runQueue, runSingle, interactive
   mode, dashboard events *)

\* sessionStats.<field>++
Inc(stats, field) == [stats EXCEPT ![field] = @ + 1]

\* the child spawn returns in runSingle, for task id `task` (0: an interactive
\* prompt); promise is the promise runSingle returned, emitted the number of
\* chunks the child wrote to its output and classified the number of them
\* given to detect
NewProc(task) ==
  [task |-> task, state |-> "running", code |-> -1, promise |-> "pending",
   error |-> FALSE, killed |-> FALSE, emitted |-> 0, classified |-> 0]

\* resolve / reject settle a promise once; later calls do nothing
Settle(promise, how) == IF promise = "pending" THEN how ELSE promise

\* the statistics after the 'close' handler of runSingle
closeHandlerStats(stats, code) == Inc(Inc(stats, "tasksCompleted"), "filesChanged")

\* the promise after the 'close' handler of runSingle: resolve({ code })
closeHandlerPromise(promise, code) == Settle(promise, "resolved")

\* the statistics after the 'error' handler of runSingle
errorHandlerStats(stats) == Inc(Inc(stats, "errors"), "tasksFailed")

\* what runQueue's try block does once runSingle resolved
afterResolveStats(stats) == Inc(stats, "tasksCompleted")

\* what runQueue's catch block does once runSingle rejected
afterRejectStats(stats) == Inc(Inc(stats, "errors"), "tasksFailed")

\* this.sessionStats.errors >= this.config.autopilot.stop_on?.error_count
tooManyErrors(stats, cfg) == stats.errors >= cfg.stop_on.error_count

\* a handler that resolves the entry and leaves it in the map
deletePendingKept(pending, actionId) == pending

\* this.pendingApprovals.delete(actionId)
deletePending(pending, actionId) == pending \ {actionId}

\* bounds of the sessions explored
MaxTasks == 3
MaxLines == 3
MaxMessages == 3
MaxOutput == 1

\* exit codes of a child: success and a failure
ExitCodes == {0, 1}

\* the task files: up to MaxTasks tasks, each of any priority
RawTaskLists == UNION {[1..n -> Priorities] : n \in 0..MaxTasks}

\* the configurations of a session: autopilot with an error threshold of 2 or
\* the default, or copilot
SessionConfigs ==
  {[DefaultConfig("autopilot") EXCEPT !.stop_on.error_count = n] :
      n \in {2, DefaultErrorCount}}
    \cup {DefaultConfig("copilot")}

\* the state after new Supervisor(config) and new TaskQueue(file) in cli.js
InitSession ==
  /\ impl = "v2"
  /\ config \in SessionConfigs
  /\ rawTasks \in IF config.mode = "autopilot" THEN RawTaskLists ELSE {<< >>}
  /\ history = << >>
  /\ fileStats = << >>
  /\ commandStats = << >>
  /\ sessionStats = NewStats
  /\ approvalRequests = 0
  /\ lastText = NoText
  /\ lastAction = NoAction
  /\ lastResult = "none"
  /\ chunks = 0
  /\ statsBefore = NewStats
  /\ outputAfterPause = FALSE
  /\ recommendations = << >>
  /\ SessionIdle

\* runQueue up to its for loop: getTasks (load, then the pending tasks),
\* dashboard.start, updateMode, updateQueue, updateStats; when load throws,
\* getTasks and runQueue reject
RunQueue ==
  /\ pc = "idle"
  /\ config.mode = "autopilot"
  /\ IF ~loaded /\ loadThrows(rawTasks)
     THEN /\ pc' = "aborted"
          /\ UNCHANGED <<tasks, queue, loaded, idx, dashStats, dashState, clients>>
     ELSE /\ \E ts \in {IF loaded THEN tasks ELSE load(rawTasks)} :
                /\ tasks' = ts
                /\ queue' = getTasks(ts)
          /\ loaded' = TRUE
          /\ idx' = 1
          /\ pc' = "loop"
          /\ dashStats' = updateStats(dashStats, sessionStats)
          /\ dashState' = updateQueue(updateMode(dashState, config.mode), queue')
          /\ clients' = broadcast(broadcast(broadcast(clients,
                            "mode", config.mode),
                            "queue", SerializeQueue(queue', tasks')),
                            "stats", dashStats')
  /\ UNCHANGED <<config, sessionStats, policyVars, rawTasks, procVars, isPaused,
                 lines, approvalVars, dashInsights, finalReport,
                 commanderVars>>

\* runQueue past the pause check: dashboard.updateTask(task), slack.taskStart
TaskStarting ==
  /\ dashState' = updateTask(dashState, queue[idx])
  /\ clients' = broadcast(clients, "task", SerializeTask(queue[idx], tasks))

\* the head of the for loop: the next task if there is one, and the pause check
LoopHead ==
  /\ pc = "loop"
  /\ pc' = IF idx > Len(queue) THEN "finish"
           ELSE IF isPaused THEN "waiting" ELSE "starting"
  /\ IF pc' = "starting" THEN TaskStarting ELSE UNCHANGED <<dashState, clients>>
  /\ UNCHANGED <<config, sessionStats, policyVars, rawTasks, tasks, loaded, queue,
                 idx, procVars, isPaused, lines, approvalVars, dashStats,
                 dashInsights, finalReport,
                 commanderVars>>

\* a tick of waitForResume's interval that resolves without looking at isPaused
WaitForResumeUnchecked ==
  /\ pc = "waiting"
  /\ pc' = "starting"
  /\ TaskStarting
  /\ UNCHANGED <<config, sessionStats, policyVars, rawTasks, tasks, loaded, queue,
                 idx, procVars, isPaused, lines, approvalVars, dashStats,
                 dashInsights, finalReport,
                 commanderVars>>

\* a tick of waitForResume's interval that finds the session resumed
WaitForResume ==
  /\ pc = "waiting"
  /\ ~isPaused
  /\ pc' = "starting"
  /\ TaskStarting
  /\ UNCHANGED <<config, sessionStats, policyVars, rawTasks, tasks, loaded, queue,
                 idx, procVars, isPaused, lines, approvalVars, dashStats,
                 dashInsights, finalReport,
                 commanderVars>>

\* runSingle(prompt): spawn the child, this.activeProcess = proc
runSingle(task) ==
  /\ procs' = Append(procs, NewProc(task))
  /\ activeProcess' = Len(procs) + 1

\* whether the task has a prompt or a description
HasPrompt(taskId) == rawTasks[tasks[taskId].orig] # NoPromptEntry

\* runSingle(undefined): prompt.slice throws before the child is spawned, the
\* promise of the async function is rejected
runSingleThrows(task) ==
  /\ procs' = Append(procs, [NewProc(task) EXCEPT !.state = "unspawned",
                                                  !.promise = "rejected"])
  /\ UNCHANGED activeProcess

\* runQueue after slack.taskStart: runSingle for the task of this iteration
StartTask ==
  /\ pc = "starting"
  /\ IF HasPrompt(queue[idx]) THEN runSingle(queue[idx])
     ELSE runSingleThrows(queue[idx])
  /\ pc' = "running"
  /\ UNCHANGED <<config, sessionStats, policyVars, rawTasks, tasks, loaded, queue,
                 idx, isPaused, lines, approvalVars, dashVars,
                 commanderVars>>

\* child i writes a chunk to its output: it was spawned with stdio 'inherit',
\* the chunk goes to the terminal and no handler of the supervisor sees it
ChildOutput(i) ==
  /\ pc # "exited"
  /\ procs[i].state = "running"
  /\ procs[i].emitted < MaxOutput
  /\ procs' = [procs EXCEPT ![i].emitted = @ + 1]
  /\ UNCHANGED <<config, sessionStats, policyVars, queueVars, activeProcess,
                 isPaused, lines, approvalVars, dashVars,
                 commanderVars>>

\* the 'close' handler of runSingle, for child i exiting with `code`; a child
\* that failed to spawn closes too, after its 'error', with a nonzero code
ProcClose(i, code) ==
  /\ pc # "exited"
  /\ \/ procs[i].state = "running"
     \/ procs[i].state = "errored" /\ code # 0
  /\ activeProcess' = 0
  /\ \E stats \in {closeHandlerStats(sessionStats, code)} :
        /\ sessionStats' = stats
        /\ dashStats' = updateStats(dashStats, stats)
  /\ clients' = broadcast(clients, "stats", dashStats')
  /\ procs' = [procs EXCEPT ![i].state = "closed", ![i].code = code,
                            ![i].promise = closeHandlerPromise(@, code)]
  /\ UNCHANGED <<config, policyVars, queueVars, isPaused, lines, approvalVars,
                 dashInsights, finalReport, dashState,
                 commanderVars>>

\* the 'error' handler of runSingle, for child i
ProcError(i) ==
  /\ pc # "exited"
  /\ procs[i].state = "running"
  /\ activeProcess' = 0
  /\ sessionStats' = errorHandlerStats(sessionStats)
  /\ procs' = [procs EXCEPT ![i].state = "errored", ![i].error = TRUE,
                            ![i].promise = Settle(@, "rejected")]
  /\ UNCHANGED <<config, policyVars, queueVars, isPaused, lines, approvalVars,
                 dashVars,
                 commanderVars>>

\* runQueue's try block after runSingle resolved: count, markComplete, then the
\* end of the iteration (updateStats, updateInsights) and the next task
TaskResolved ==
  /\ pc = "running"
  /\ procs[Len(procs)].promise = "resolved"
  /\ \E stats \in {afterResolveStats(sessionStats)} :
        /\ sessionStats' = stats
        /\ dashStats' = updateStats(dashStats, stats)
  /\ dashInsights' = getInsights(history)
  /\ tasks' = markComplete(tasks, queue[idx])
  /\ clients' = broadcast(broadcast(broadcast(clients,
                    "taskCompleted", SerializeTask(queue[idx], tasks')),
                    "stats", dashStats'),
                    "insights", dashInsights')
  /\ idx' = idx + 1
  /\ pc' = "loop"
  /\ UNCHANGED <<config, policyVars, rawTasks, loaded, queue, procVars, isPaused,
                 lines, approvalVars, finalReport, dashState,
                 commanderVars>>

\* a catch block that leaves the failed task to be taken again by the loop
TaskRejectedRetry ==
  /\ pc = "running"
  /\ procs[Len(procs)].promise = "rejected"
  /\ sessionStats' = afterRejectStats(sessionStats)
  /\ pc' = "loop"
  /\ UNCHANGED <<config, policyVars, rawTasks, tasks, loaded, queue, idx, procVars,
                 isPaused, lines, approvalVars, dashVars,
                 commanderVars>>

\* runQueue's catch block after runSingle rejected: count, then break at the
\* error threshold, or else the end of the iteration (updateStats,
\* updateInsights) and the next task
TaskRejected ==
  /\ pc = "running"
  /\ procs[Len(procs)].promise = "rejected"
  /\ \E stats \in {afterRejectStats(sessionStats)} :
        /\ sessionStats' = stats
        /\ IF tooManyErrors(stats, config)
           THEN /\ pc' = "finish"
                /\ idx' = idx
                /\ clients' = broadcast(clients,
                                  "taskFailed", SerializeTask(queue[idx], tasks))
                /\ UNCHANGED <<dashStats, dashInsights>>
           ELSE /\ pc' = "loop"
                /\ idx' = idx + 1
                /\ dashStats' = updateStats(dashStats, stats)
                /\ dashInsights' = getInsights(history)
                /\ clients' = broadcast(broadcast(broadcast(clients,
                                  "taskFailed", SerializeTask(queue[idx], tasks)),
                                  "stats", dashStats'),
                                  "insights", dashInsights')
  /\ UNCHANGED <<config, policyVars, rawTasks, tasks, loaded, queue, procVars,
                 isPaused, lines, approvalVars, finalReport, dashState,
                 commanderVars>>

\* runQueue after the loop: the final notifications and summary,
\* dashboard.sessionComplete()
Finish ==
  /\ pc = "finish"
  /\ pc' = "done"
  /\ finalReport' = sessionComplete(dashStats, sessionStats, dashInsights)
  /\ dashState' = [dashState EXCEPT !.sessionComplete = TRUE]
  /\ clients' = broadcast(clients, "sessionComplete", dashStats)
  /\ UNCHANGED <<config, sessionStats, policyVars, rawTasks, tasks, loaded, queue,
                 idx, procVars, isPaused, lines, approvalVars, dashStats,
                 dashInsights,
                 commanderVars>>

\* startInteractive: the dashboard is started, updateMode('copilot'), and the
\* line handler installed
StartInteractive ==
  /\ pc = "idle"
  /\ config.mode = "copilot"
  /\ pc' = "interactive"
  /\ dashState' = updateMode(dashState, "copilot")
  /\ clients' = broadcast(clients, "mode", "copilot")
  /\ UNCHANGED <<config, sessionStats, policyVars, rawTasks, tasks, loaded, queue,
                 idx, procVars, isPaused, lines, approvalVars, dashStats,
                 dashInsights, finalReport,
                 commanderVars>>

\* the 'line' handler on "/task <description>" or a bare prompt: runSingle
LineTask ==
  /\ pc = "interactive"
  /\ lines < MaxLines
  /\ lines' = lines + 1
  /\ runSingle(0)
  /\ UNCHANGED <<config, sessionStats, policyVars, queueVars, isPaused, approvalVars,
                 dashVars,
                 commanderVars>>

\* the 'line' handler on "/pause" (paused = TRUE) or "/resume" (FALSE), with
\* its dashboard.updateMode
LinePause(paused) ==
  /\ pc = "interactive"
  /\ lines < MaxLines
  /\ lines' = lines + 1
  /\ isPaused' = paused
  /\ \E mode \in {IF paused THEN "paused" ELSE "copilot"} :
        /\ dashState' = updateMode(dashState, mode)
        /\ clients' = broadcast(clients, "mode", mode)
  /\ UNCHANGED <<config, sessionStats, policyVars, queueVars, procVars, approvalVars,
                 dashStats, dashInsights, finalReport,
                 commanderVars>>

\* the 'line' handler on "/quit": shutdown kills the active child, then
\* process.exit(0)
LineQuit ==
  /\ pc = "interactive"
  /\ lines < MaxLines
  /\ lines' = lines + 1
  /\ procs' = IF activeProcess # 0
              THEN [procs EXCEPT ![activeProcess].killed = TRUE]
              ELSE procs
  /\ pc' = "exited"
  /\ UNCHANGED <<config, sessionStats, policyVars, rawTasks, tasks, loaded, queue,
                 idx, activeProcess, isPaused, approvalVars, dashVars,
                 commanderVars>>

\* the dashboard was started and the program has not exited: its messages arrive
DashboardUp == pc \notin {"idle", "exited", "aborted"}

\* the dashboard's 'pause' (paused = TRUE) and 'resume' (FALSE) handlers, with
\* their dashboard.updateMode
DashboardPause(paused) ==
  /\ DashboardUp
  /\ isPaused' = paused
  /\ \E mode \in {IF paused THEN "paused" ELSE config.mode} :
        /\ dashState' = updateMode(dashState, mode)
        /\ clients' = broadcast(clients, "mode", mode)
  /\ UNCHANGED <<config, sessionStats, policyVars, queueVars, procVars, lines,
                 approvalVars, dashStats, dashInsights, finalReport,
                 commanderVars>>

\* the dashboard's 'approve' and 'deny' handlers, on a message for actionId:
\* if there is an entry, resolve it with the verdict and delete it
DashboardVerdict(kind, actionId) ==
  /\ DashboardUp
  /\ messages < MaxMessages
  /\ messages' = messages + 1
  /\ lastMessage' = [kind |-> kind, id |-> actionId,
                      resolved |-> actionId \in pendingApprovals]
  /\ IF actionId \in pendingApprovals
     THEN /\ verdicts' = [verdicts EXCEPT ![actionId] = Append(@, kind)]
          /\ pendingApprovals' = deletePending(pendingApprovals, actionId)
     ELSE UNCHANGED <<verdicts, pendingApprovals>>
  /\ UNCHANGED <<config, sessionStats, policyVars, queueVars, procVars, isPaused,
                 lines, registered, dashVars,
                 commanderVars>>

\* an approval is registered under a fresh id and awaits its verdict
RegisterApproval ==
  /\ DashboardUp
  /\ registered < MaxApprovals
  /\ registered' = registered + 1
  /\ pendingApprovals' = pendingApprovals \cup {registered + 1}
  /\ UNCHANGED <<config, sessionStats, policyVars, queueVars, procVars, isPaused,
                 lines, messages, lastMessage, verdicts, dashVars,
                 commanderVars>>

NextSession ==
  \/ RunQueue
  \/ LoopHead
  \/ WaitForResume
  \/ StartTask
  \/ \E i \in DOMAIN procs, code \in ExitCodes : ProcClose(i, code)
  \/ \E i \in DOMAIN procs : ProcError(i)
  \/ TaskResolved
  \/ TaskRejected
  \/ Finish
  \/ StartInteractive
  \/ LineTask
  \/ \E paused \in BOOLEAN : LinePause(paused)
  \/ LineQuit
  \/ \E paused \in BOOLEAN : DashboardPause(paused)

SpecSession == InitSession /\ [][NextSession]_vars

\* the session with the output its child processes write
NextOutput ==
  \/ NextSession
  \/ \E i \in DOMAIN procs : ChildOutput(i)

SpecOutput == InitSession /\ [][NextOutput]_vars

\* number of entries of a task file with malformed entries
MaxEntries == 2

\* task files with an entry that is not a task
MalformedTaskLists ==
  {raw \in UNION {[1..n -> {"normal", NoPromptEntry, NullEntry}] : n \in 1..MaxEntries} :
     \E i \in DOMAIN raw : raw[i] # "normal"}

\* an autopilot session on a task file with malformed entries
InitMalformed ==
  /\ impl = "v2"
  /\ config = DefaultConfig("autopilot")
  /\ rawTasks \in MalformedTaskLists
  /\ history = << >>
  /\ fileStats = << >>
  /\ commandStats = << >>
  /\ sessionStats = NewStats
  /\ approvalRequests = 0
  /\ lastText = NoText
  /\ lastAction = NoAction
  /\ lastResult = "none"
  /\ chunks = 0
  /\ statsBefore = NewStats
  /\ outputAfterPause = FALSE
  /\ recommendations = << >>
  /\ SessionIdle

NextQueue ==
  \/ RunQueue
  \/ LoopHead
  \/ WaitForResume
  \/ StartTask
  \/ \E i \in DOMAIN procs, code \in ExitCodes : ProcClose(i, code)
  \/ \E i \in DOMAIN procs : ProcError(i)
  \/ TaskResolved
  \/ TaskRejected
  \/ Finish
  \/ \E paused \in BOOLEAN : DashboardPause(paused)

SpecMalformed == InitMalformed /\ [][NextQueue]_vars

\* the session with the timer of waitForResume firing and the await of
\* slack.taskStart returning
SpecSessionFair == SpecSession /\ WF_vars(WaitForResume) /\ WF_vars(StartTask)

\* bound of the task files of the sessions explored with approvals
MaxApprovalTasks == 1

\* the sessions explored with approvals: short task files of one priority
InitApproval ==
  /\ InitSession
  /\ Len(rawTasks) <= MaxApprovalTasks
  /\ \A i \in DOMAIN rawTasks : rawTasks[i] = "normal"

\* the session together with the approvals arriving and being resolved
NextApproval ==
  \/ NextSession
  \/ \E kind \in {"approve", "deny"}, actionId \in ApprovalIds :
        DashboardVerdict(kind, actionId)
  \/ RegisterApproval

SpecApproval == InitApproval /\ [][NextApproval]_vars

-----------------------------------------------------------------------------
(* The dashboard and its observers *)

MaxClients == 2
MaxInbox == 2
MaxObservedTasks == 1

\* a WebSocket client connects to the dashboard's server: the 'connection'
\* handler
ClientConnect ==
  /\ DashboardUp
  /\ Len(clients) < MaxClients
  /\ clients' = connection(clients, Snapshot(dashState, dashStats, dashInsights, tasks))
  /\ UNCHANGED <<config, sessionStats, policyVars, queueVars, procVars, isPaused,
                 lines, approvalVars, dashStats, dashInsights, finalReport,
                 dashState,
                 commanderVars>>

\* the 'close' handler of client i: clients.delete(ws)
ClientClose(i) ==
  /\ pc # "exited"
  /\ clients[i].open
  /\ clients' = [clients EXCEPT ![i].open = FALSE]
  /\ UNCHANGED <<config, sessionStats, policyVars, queueVars, procVars, isPaused,
                 lines, approvalVars, dashStats, dashInsights, finalReport,
                 dashState,
                 commanderVars>>

\* no client has MaxInbox messages yet
InboxRoom == \A i \in DOMAIN clients : Len(clients[i].inbox) < MaxInbox

\* a session of at most MaxObservedTasks tasks under the default configuration
\* of either mode
InitDashboard ==
  /\ InitSession
  /\ config \in {DefaultConfig("autopilot"), DefaultConfig("copilot")}
  /\ Len(rawTasks) <= MaxObservedTasks
  /\ \A i \in DOMAIN rawTasks : rawTasks[i] = "normal"

\* the session, the actions it handles, and the observers coming and going
NextDashboard ==
  \/ RunQueue
  \/ LoopHead
  \/ WaitForResume
  \/ StartTask
  \/ \E i \in DOMAIN procs, code \in ExitCodes : ProcClose(i, code)
  \/ \E i \in DOMAIN procs : ProcError(i)
  \/ TaskResolved
  \/ TaskRejected
  \/ Finish
  \/ StartInteractive
  \/ InboxRoom /\ \E paused \in BOOLEAN : LinePause(paused)
  \/ InboxRoom /\ \E paused \in BOOLEAN : DashboardPause(paused)
  \/ Detect(CreatingFileF1)
  \/ HandleAction
  \/ ClientConnect
  \/ \E i \in DOMAIN clients : ClientClose(i)

SpecDashboard == InitDashboard /\ [][NextDashboard]_vars

-----------------------------------------------------------------------------
(* Claims about detection, risk and policy, checked under Spec *)

Handled == lastAction # NoAction /\ lastResult # "none"

\* the match of lastText that lastAction was made from
LastHit ==
  CHOOSE h \in lastText.hits : h.type = lastAction.type /\ h.pat = lastAction.raw[2]

\* C1: a text that matches a dangerous pattern is detected as a
\* dangerous_command of level critical, whatever else it matches, and the
\* recommendation and handleAction's decision for it are a refusal (deny),
\* whatever the lists of the configuration contain.
C1_DangerousAlwaysDenied ==
  (impl = "v2" /\ lastText.dang # {}) =>
    /\ lastAction.type = "dangerous_command"
    /\ lastAction.riskLevel = "critical"
    /\ shouldAutoAccept(lastAction, config).accept = "false"
    /\ lastResult \in {"none", "deny"}
    /\ sessionStats.actionsApproved = statsBefore.actionsApproved

\* a text matching a dangerous pattern and an action pattern, its type
\* auto-accepted, denied by handleAction
C1_Witness ==
  /\ impl = "v2"
  /\ lastText.dang # {}
  /\ lastText.hits # {}
  /\ "dangerous_command" \in config.auto_accept
  /\ \A h \in lastText.hits : h.type \in config.auto_accept
  /\ lastResult = "deny"

\* C2: an action whose type is in require_approval is never accepted and never
\* counted as approved, whatever its risk and whatever the other lists hold.
C2_RequireApprovalNeverAccepted ==
  (Handled /\ lastAction.type \in config.require_approval) =>
    /\ lastResult # "accept"
    /\ sessionStats.actionsApproved = statsBefore.actionsApproved

\* C3, as stated: an action whose type is in auto_accept and whose risk score
\* is at most 0.7 is accepted.
C3_AutoAcceptLowRiskAccepted_Original ==
  (impl = "v2" /\ lastAction # NoAction /\ lastAction.type \in config.auto_accept
     /\ ~lastAction.riskScore.nan /\ ~JsGt(lastAction.riskScore, Num(70))) =>
    /\ shouldAutoAccept(lastAction, config).accept = "true"
    /\ lastResult \in {"none", "accept"}

\* C3, amended: an action whose type is in auto_accept and not in
\* require_approval and whose risk score is at most 0.7 is accepted.
C3_AutoAcceptLowRiskAccepted ==
  (impl = "v2" /\ lastAction # NoAction /\ lastAction.type \in config.auto_accept
     /\ lastAction.type \notin config.require_approval
     /\ ~lastAction.riskScore.nan /\ ~JsGt(lastAction.riskScore, Num(70))) =>
    /\ shouldAutoAccept(lastAction, config).accept = "true"
    /\ lastResult \in {"none", "accept"}

\* an auto-accepted action of risk score exactly 0.7, accepted
C3_Witness ==
  /\ impl = "v2"
  /\ Handled
  /\ lastAction.type \in config.auto_accept
  /\ lastAction.type \notin config.require_approval
  /\ lastAction.riskScore = Num(70)
  /\ lastResult = "accept"
  /\ sessionStats.actionsApproved = statsBefore.actionsApproved + 1

\* C4: an action whose type is in auto_accept and whose risk score is above
\* 0.7 is not accepted: the recommendation is a refusal, and handleAction
\* returns deny or pause and does not count it as approved.
C4_AutoAcceptHighRiskOverridden ==
  (impl = "v2" /\ lastAction # NoAction /\ lastAction.type \in config.auto_accept
     /\ JsGt(lastAction.riskScore, Num(70))) =>
    /\ shouldAutoAccept(lastAction, config).accept = "false"
    /\ lastResult \in {"none", "deny", "pause"}
    /\ sessionStats.actionsApproved = statsBefore.actionsApproved

\* an action that only the override refuses: its type is auto-accepted and not
\* in require_approval, its level is not critical, its score is above 0.7
C4_Witness ==
  /\ impl = "v2"
  /\ Handled
  /\ lastAction.type \in config.auto_accept
  /\ lastAction.type \notin config.require_approval
  /\ lastAction.riskLevel # "critical"
  /\ JsGt(lastAction.riskScore, Num(70))
  /\ lastResult = "pause"

\* the number of edits of the file recorded before lastAction was detected
EditsBefore(target) ==
  EditsOf(fileStats, target)
    - (IF lastAction.type = "file_edit" /\ lastAction.target = target /\ target # ""
       THEN 1 ELSE 0)

RECURSIVE FactorSum(_, _, _)
\* the sum of the values of the factors, from factor i on, that apply to hit
FactorSum(factors, i, hit) ==
  IF i > Len(factors) THEN 0
  ELSE (CASE factors[i].kind = "stats" ->
               IF EditsBefore(hit.target) > FrequencyLimit THEN factors[i].value ELSE 0
          [] OTHER -> IF factors[i].name \in hit.fired THEN factors[i].value ELSE 0)
       + FactorSum(factors, i + 1, hit)

\* clamp(baseRisk + sum of the factor contributions, 0, 1), in hundredths
ClampedSum(hit) ==
  LET sum == BaseRisk(hit.type) + FactorSum(RiskFactors(hit.type), 1, hit)
  IN IF sum < 0 THEN 0 ELSE IF sum > 100 THEN 100 ELSE sum

\* C5: the risk score of every detected action is a number in [0,1], equal to
\* clamp(baseRisk + sum of the factor contributions, 0, 1), for every action
\* type, npm_install included.
C5_ScoreIsClampedSum ==
  (impl = "v2" /\ lastAction # NoAction) =>
    /\ ~lastAction.riskScore.nan
    /\ lastAction.riskScore.v >= 0
    /\ lastAction.riskScore.v <= 100
    /\ lastAction.type # "dangerous_command" =>
         lastAction.riskScore.v = ClampedSum(LastHit)

-----------------------------------------------------------------------------
(* Claims about pausing, approvals and stop conditions, checked under Spec *)

\* C11: once the decision for a detected action is pause, no further output
\* of the task is processed until the approval is resolved (no step of Spec
\* resolves one)
C11_PauseBlocksOutput == ~outputAfterPause

\* C12: every action whose decision is pause gets a pending-approval entry on
\* which the flow waits
C12_PauseRegistersApproval ==
  (impl = "v2" /\ Handled /\ lastResult = "pause") => pendingApprovals # {}

\* C16: for the text "Deleting file: .env", with file_delete listed in
\* auto_accept (and no rule before auto_accept's deciding), the detected type
\* is file_delete, its risk score is above 0.7, and handleAction does not
\* accept it
C16_SensitiveDeleteNotAccepted ==
  (/\ impl = "v2"
   /\ Handled
   /\ lastText = DeletingFileEnv
   /\ "file_delete" \in config.auto_accept
   /\ "file_delete" \notin config.require_approval)
    => /\ lastAction.type = "file_delete"
       /\ JsGt(lastAction.riskScore, Num(70))
       /\ lastResult # "accept"

\* C17: for the text "npm install lodash" with npm_install in auto_accept (and
\* not in require_approval) the detected type is npm_install, the risk score
\* is exactly the base risk 0.3, and handleAction accepts
C17_NpmInstallBaseRisk ==
  (/\ impl = "v2"
   /\ Handled
   /\ lastText = NpmInstallLodash
   /\ "npm_install" \in config.auto_accept
   /\ "npm_install" \notin config.require_approval)
    => /\ lastAction.type = "npm_install"
       /\ lastAction.riskScore = Num(BaseRisk("npm_install"))
       /\ lastResult = "accept"

\* C18: every action detect returns carries the level of its riskScore:
\* critical when score >= 0.8, high when 0.6 <= score < 0.8, medium when
\* 0.4 <= score < 0.6, low when 0.2 <= score < 0.4, minimal when score < 0.2;
\* a dangerous_command is scored 1.0 or 0.9 and is critical
C18_LevelFollowsLadder ==
  (impl = "v2" /\ lastAction # NoAction) =>
    LET score == lastAction.riskScore
        level == lastAction.riskLevel
    IN /\ level = "critical" <=> JsGe(score, Num(80))
       /\ level = "high" <=> (JsGe(score, Num(60)) /\ JsLt(score, Num(80)))
       /\ level = "medium" <=> (JsGe(score, Num(40)) /\ JsLt(score, Num(60)))
       /\ level = "low" <=> (JsGe(score, Num(20)) /\ JsLt(score, Num(40)))
       /\ level = "minimal" <=> JsLt(score, Num(20))
       /\ lastAction.type = "dangerous_command" =>
             /\ score \in {Num(100), Num(90)}
             /\ level = "critical"

\* C14: in autopilot mode with stop_on.unknown_action, an action that no rule
\* matches (not dangerous, not critical, its type in none of auto_accept,
\* require_approval and quick_confirm) makes handleAction yield stop
C14_UnknownActionStops ==
  (/\ Handled
   /\ config.mode = "autopilot"
   /\ config.stop_on.unknown_action
   /\ lastAction.type # "dangerous_command"
   /\ lastAction.riskLevel # "critical"
   /\ lastAction.type \notin
        (config.auto_accept \cup config.require_approval \cup config.quick_confirm))
    => lastResult = "stop"

\* no rule before the default rule matches lastAction: it is not dangerous, its
\* level is not critical, and its type is in none of the lists
DefaultRuleCase ==
  /\ impl = "v2"
  /\ Handled
  /\ lastAction.type # "dangerous_command"
  /\ lastAction.riskLevel # "critical"
  /\ lastAction.type \notin
       (config.require_approval \cup config.auto_accept \cup config.quick_confirm)

\* the score is a number below 0.5
ScoreBelowHalf(score) ==
  ~score.nan /\ (score.v < 50 \/ (score.v = 50 /\ score.d < 0))

C20_QuickConfirmOnlyInCopilot ==
  (impl = "v2" /\ Handled) =>
    LET recommendation == shouldAutoAccept(lastAction, config)
    IN /\ config.mode = "autopilot" => recommendation.accept # "quick_confirm"
       /\ (/\ config.mode = "copilot"
           /\ lastAction.type # "dangerous_command"
           /\ lastAction.riskLevel # "critical"
           /\ lastAction.type \in config.quick_confirm
           /\ lastAction.type \notin (config.require_approval \cup config.auto_accept))
            => /\ recommendation.accept = "quick_confirm"
               /\ recommendation.timeout =
                    (IF config.timeout_seconds # 0 THEN config.timeout_seconds
                     ELSE DefaultTimeout)

\* C22: detect returns null or an action whose confidence is in (0,1], and
\* for a text that matches no action pattern and no dangerous pattern it
\* returns null (the call completes: the chunk is counted)
C22_DetectNullOrConfident ==
  (impl = "v2" /\ chunks > 0) =>
    /\ lastAction # NoAction =>
          /\ ~lastAction.confidence.nan
          /\ lastAction.confidence.v > 0
          /\ lastAction.confidence.v < 100
               \/ lastAction.confidence = Num(100)
    /\ (lastText.hits = {} /\ lastText.dang = {}) => lastAction = NoAction

\* detect was given a text that matches nothing and returned null
C22_Witness ==
  /\ impl = "v2"
  /\ chunks > 0
  /\ lastText = NoText
  /\ lastAction = NoAction

\* the first rule, in the order critical, require_approval, auto_accept,
\* quick_confirm, default, that matches the action
FirstMatchingRule(action, cfg) ==
  IF action.type = "dangerous_command" \/ action.riskLevel = "critical" THEN "critical"
  ELSE IF action.type \in cfg.require_approval THEN "require_approval"
  ELSE IF action.type \in cfg.auto_accept THEN "auto_accept"
  ELSE IF action.type \in cfg.quick_confirm THEN "quick_confirm"
  ELSE "default"

\* the rule a recommendation of shouldAutoAccept comes from, by its reason
RuleOfReason(reason) ==
  CASE reason[1] = "Critical risk detected" -> "critical"
    [] reason[1] = "Action type requires approval" -> "require_approval"
    [] reason[1] \in {"High risk score: ", "Action type auto-accepted"} -> "auto_accept"
    [] reason[1] = "Quick confirmation" -> "quick_confirm"
    [] reason[1] = "Risk score: " -> "default"

\* C23: the decision is that of the first rule that matches, in the order
\* critical/dangerous, require_approval, auto_accept, quick_confirm, default:
\* a critical or dangerous action is denied whatever the lists hold, a type in
\* require_approval is paused even if it is in auto_accept too, and the
\* recommendation of shouldAutoAccept is the one of the first matching rule
C23_FirstMatchingRuleWins ==
  Handled =>
    /\ FirstMatchingRule(lastAction, config) = "critical" => lastResult = "deny"
    /\ FirstMatchingRule(lastAction, config) = "require_approval" =>
          lastResult = "pause"
    /\ impl = "v2" =>
          RuleOfReason(shouldAutoAccept(lastAction, config).reason)
            = FirstMatchingRule(lastAction, config)

\* C25: a handled action whose outcome is pause or deny has incremented
\* actionsDenied by exactly one and, in autopilot mode, has a pending-approval
\* entry and an approval request on the external channel; an accepted action
\* has not incremented actionsDenied
C25_RefusalsCounted ==
  (impl = "v2" /\ Handled) =>
    /\ lastResult \in {"pause", "deny"} =>
          /\ sessionStats.actionsDenied = statsBefore.actionsDenied + 1
          /\ config.mode = "autopilot" =>
                /\ pendingApprovals # {}
                /\ approvalRequests > 0
    /\ lastResult = "accept" =>
          sessionStats.actionsDenied = statsBefore.actionsDenied

\* the calls of shouldAutoAccept made on lastAction all returned the same
RECURSIVE SumOfFired(_, _, _)
\* the sum of the values of the factors from factor i on whose test fires on
\* the hit, the factors that throw left out
SumOfFired(factors, i, hit) ==
  IF i > Len(factors) THEN 0
  ELSE (IF ~FactorThrows(factors[i]) /\ factors[i].name \in hit.fired
        THEN factors[i].value ELSE 0)
       + SumOfFired(factors, i + 1, hit)

\* C34: a risk factor that throws (frequency of file_edit) contributes 0 and
\* is skipped: the text's match is still detected as an action, every other
\* factor of the type is applied, and the score is clamped into [0,1]
C34_ThrowingFactorSkipped ==
  (impl = "v2" /\ lastText.dang = {} /\ lastText.hits # {}
     /\ \A h \in lastText.hits : \E i \in DOMAIN RiskFactors(h.type) :
           FactorThrows(RiskFactors(h.type)[i])) =>
    /\ lastAction # NoAction
    /\ ~lastAction.riskScore.nan
    /\ lastAction.riskScore.v >= 0
    /\ lastAction.riskScore.v <= 100
    /\ \E sum \in {BaseRisk(LastHit.type)
                      + SumOfFired(RiskFactors(LastHit.type), 1, LastHit)} :
          lastAction.riskScore.v = IF sum > 100 THEN 100 ELSE sum

\* a file_edit on a sensitive configuration file: frequency throws, config_file
\* and sensitive_file are applied: 0.3 + 0.2 + 0.5 = 1
C34_Witness ==
  /\ impl = "v2"
  /\ lastAction # NoAction
  /\ lastAction.type = "file_edit"
  /\ LastHit.fired = {"config_file", "sensitive_file"}
  /\ lastAction.riskScore = Num(100)
  /\ lastResult # "none"

\* a call of detect: it returned nothing and left the history alone, or it
\* appended the action it returned, dropping the oldest action of a full
\* history and keeping the others in their order
HistoryStep ==
  IF lastAction' = NoAction THEN history' = history
  ELSE \E n \in {Len(history)}, m \in {Len(history')} :
         /\ m = IF n + 1 > HistoryCap THEN HistoryCap ELSE n + 1
         /\ history'[m] = lastAction'
         /\ \A i \in 1..(m - 1) : history'[i] = history[i + (n + 1 - m)]

\* C32: after any sequence of detect calls the history holds at most 1000
\* actions, the most recently returned ones in the order they were returned
\* (the oldest evicted first), and a call that returns an action appends
\* exactly that action
C32_HistoryKeepsLast1000 ==
  /\ [](Len(history) <= HistoryCap)
  /\ [][HistoryStep]_vars

\* a full history after two further actions: the two oldest are gone
C32_Witness ==
  /\ Len(history) = HistoryCap
  /\ fileStats[TargetName(1)].edits = 1
  /\ history[1].target = TargetName(3)
  /\ history[HistoryCap] = lastAction
  /\ lastAction.target = TargetName(HistoryCap + 2)

\* C33: the per-target statistics are capped: the number of entries of
\* fileStats and of commandStats never exceeds a fixed bound (the history's,
\* the only cap the detector has)
C33_StatsCapped ==
  /\ Cardinality(DOMAIN fileStats) <= HistoryCap
  /\ Cardinality(DOMAIN commandStats) <= HistoryCap

\* the file_edit actions on the target that detect has returned so far
EditsRecorded(target) ==
  Cardinality({i \in 1..Len(history) :
                 history[i].type = "file_edit" /\ history[i].target = target})

\* C36: a file_edit on a target receives the frequency contribution (+0.3)
\* exactly when more than 5 file_edit actions on that target were returned
\* earlier in the session, and a target's edit counter counts the file_edit
\* actions that detect returned
C36_FrequencyFromEarlierEdits ==
  /\ \A t \in DOMAIN fileStats : fileStats[t].edits = EditsRecorded(t)
  /\ (lastAction # NoAction /\ lastAction.type = "file_edit") =>
        lastAction.riskScore =
          Num(BaseRisk("file_edit")
                + (IF EditsRecorded(lastAction.target) - 1 > FrequencyLimit
                   THEN 30 ELSE 0))

\* the place of a type in the order detect goes through: the keys of
\* actionDefs in declaration order, then the dangerous matches
DeclarationIndex(type) ==
  IF type = "dangerous_command" THEN Len(ActionTypes) + 1
  ELSE CHOOSE ti \in 1..Len(ActionTypes) : ActionTypes[ti] = type

\* every candidate the text gives rise to, unsorted
CandidatesOf(text) ==
  LET all == AllCandidates(1, text, << >>) \o MapDangers(checkDangerous(text))
  IN {[type |-> all[i].type, confidence |-> all[i].confidence] : i \in DOMAIN all}

\* C31: detect returns a candidate of the highest confidence among all
\* per-type and dangerous candidates, and among the candidates of that
\* confidence one of the type declared first
C31_HighestConfidenceFirstDeclared ==
  (impl = "v2" /\ lastAction # NoAction) =>
    /\ [type |-> lastAction.type, confidence |-> lastAction.confidence]
          \in CandidatesOf(lastText)
    /\ \A c \in CandidatesOf(lastText) :
          /\ ~JsGt(c.confidence, lastAction.confidence)
          /\ c.confidence = lastAction.confidence =>
                DeclarationIndex(lastAction.type) <= DeclarationIndex(c.type)

\* two types tie at the highest confidence, and a later type beats an earlier
\* one of lower confidence
C31_Witness ==
  /\ impl = "v2"
  /\ lastText = GitCommitAndPush
  /\ lastAction.type = "git_commit"
  /\ lastAction.confidence = Num(95)

\* the patterns of `type` that match the text, for SmartDetector
MatchingPatterns(type, text) == {h.pat : h \in {g \in text.hits : g.type = type}}

\* the patterns of the type of index ti that match the text, for ActionClassifier
MatchingClassifierPatterns(ti, text) == {c[2] : c \in {d \in text.chits : d[1] = ti}}

Least(S) == CHOOSE p \in S : \A q \in S : p <= q

\* C30: for each action type only the first pattern of its list that matches
\* the text contributes a candidate: no type contributes two candidates, and
\* the confidence and target of the detected action are those of the first
\* matching pattern of its type (SmartDetector.detect); ActionClassifier.detect
\* returns the match of the first matching pattern of the type
C30_FirstMatchingPatternOnly ==
  /\ (impl = "v2" /\ lastAction # NoAction /\ lastAction.type # "dangerous_command") =>
        /\ \A ti \in 1..Len(ActionTypes) :
              Len(TypeCandidates(ActionTypes[ti], 1, lastText, fileStats)) <= 1
        /\ \E h \in lastText.hits :
              /\ h.type = lastAction.type
              /\ h.pat = Least(MatchingPatterns(lastAction.type, lastText))
              /\ lastAction.confidence = Num(PatternConfidence(h.type)[h.pat])
              /\ lastAction.target = h.target
  /\ (impl = "v1" /\ lastAction # NoAction) =>
        \E ti \in 1..Len(ClassifierTypes) :
          /\ ClassifierTypes[ti] = lastAction.type
          /\ MatchingClassifierPatterns(ti, lastText) # {}
          /\ lastAction.raw =
               <<lastAction.type, Least(MatchingClassifierPatterns(ti, lastText))>>

SameRecommendations ==
  \A i, j \in DOMAIN recommendations : recommendations[i] = recommendations[j]

\* a step that is a call of shouldAutoAccept leaves the action, the
\* configuration, the detector's history and statistics and the session
\* statistics as they were
PureCallStep ==
  Len(recommendations') > Len(recommendations) =>
    /\ lastAction' = lastAction
    /\ config' = config
    /\ history' = history
    /\ fileStats' = fileStats
    /\ commandStats' = commandStats
    /\ sessionStats' = sessionStats

-----------------------------------------------------------------------------
(* Claims about the task queue and the session, checked under SpecSession *)

QueueMode == config.mode = "autopilot"

\* child i exited with code 0
ExitedZero(i) == procs[i].state = "closed" /\ ~procs[i].error /\ procs[i].code = 0

\* the task of child i failed: a nonzero exit code or a process-level error
Failed(i) == procs[i].error \/ (procs[i].state = "closed" /\ procs[i].code # 0)

\* runQueue is done with the iteration that started child i
IterationOver(i) == i < Len(procs) \/ pc \in {"loop", "waiting", "starting", "finish", "done"}

\* C6: in runQueue a task whose child exits with code 0 is marked complete; a
\* task whose child exits with a nonzero code or raises a process-level error
\* is marked failed, counted in tasksFailed and in errors; a nonzero exit is
\* never recorded as a completion
C6_ExitCodeDecidesOutcome ==
  QueueMode =>
    /\ (\A i \in DOMAIN procs : ~ExitedZero(i)) => sessionStats.tasksCompleted = 0
    /\ \A i \in DOMAIN procs : IterationOver(i) =>
          /\ ExitedZero(i) => tasks[procs[i].task].status = "complete"
          /\ Failed(i) => tasks[procs[i].task].status = "failed"
    /\ \E failed \in {Cardinality({i \in DOMAIN procs : IterationOver(i) /\ Failed(i)})} :
          /\ sessionStats.tasksFailed >= failed
          /\ sessionStats.errors >= failed

\* C7: once errors reach stop_on.error_count no remaining task is started;
\* with 3 tasks and error_count = 2, when the first two tasks fail the third
\* is never started, stays pending, and the session ends with tasksFailed = 2
C7_StopsAtErrorCount ==
  QueueMode =>
    /\ sessionStats.errors >= config.stop_on.error_count
          => pc \notin {"loop", "waiting", "starting"}
    /\ (/\ Len(rawTasks) = 3
        /\ config.stop_on.error_count = 2
        /\ Len(procs) >= 2
        /\ Failed(1)
        /\ Failed(2))
          => /\ Len(procs) = 2
             /\ pc = "done" => /\ sessionStats.tasksFailed = 2
                               /\ tasks[3].status = "pending"

\* C8: load puts every high task before every normal task before every low
\* task and keeps the file order within a priority; runQueue starts the tasks
\* in that order
C8_PriorityOrderStable ==
  (QueueMode /\ loaded) =>
    /\ \A i, j \in DOMAIN tasks : i < j =>
          \/ priorityOrder(tasks[i].priority) < priorityOrder(tasks[j].priority)
          \/ /\ tasks[i].priority = tasks[j].priority
             /\ tasks[i].orig < tasks[j].orig
    /\ \A k \in DOMAIN procs : procs[k].task = tasks[k].id

\* C9: at most one child process is alive at any time, in runQueue and in
\* interactive mode
C9_AtMostOneChildAlive ==
  Cardinality({i \in DOMAIN procs : procs[i].state = "running"}) <= 1

\* C13: after shutdown (the "/quit" line, the only caller of shutdown) no child
\* process is left running without having been killed, and nothing happens
\* any more: no task is started and no task leaves its complete status
C13_ShutdownStopsChildren ==
  pc = "exited" =>
    /\ \A i \in DOMAIN procs : procs[i].state = "running" => procs[i].killed
    /\ ~ENABLED NextSession

\* C15: when runQueue ends, after the whole queue or at the error threshold,
\* the statistics the sessionComplete broadcast carries are the supervisor's
\* sessionStats of that moment, and insights have been published
C15_FinalStatsPublished ==
  finalReport.sent =>
    /\ finalReport.broadcast = finalReport.sessionStats
    /\ finalReport.insights.published

\* C24: when a task is reported finished (its promise is settled), every
\* chunk its child process wrote to its output has been given to the
\* classifier
C24_EveryChunkClassified ==
  \A i \in DOMAIN procs :
    procs[i].promise # "pending" => procs[i].classified = procs[i].emitted

\* runQueue is between two tasks or past its loop
AtTaskBoundaryOrEnd == pc \in {"loop", "waiting", "starting", "finish", "done"}

\* the session is a runQueue session, from its loop to its end
QueueSession == pc \in {"loop", "waiting", "starting", "running", "finish", "done"}

\* C27: within one runQueue session the k-th process started is the process of
\* the k-th queued task (each task started at most once, a failed one never
\* retried, in queue order), and a task is started only after the process of
\* the task before it has closed or errored
C27_TasksStartedOnceInOrder ==
  QueueSession =>
    /\ Len(procs) <= Len(queue)
    /\ Len(procs) \in {idx - 1, idx}
    /\ \A i \in DOMAIN procs :
          /\ procs[i].task = queue[i]
          /\ i < Len(procs) => procs[i].state \in {"closed", "errored"}

\* a session that went through its queue, a second task started after the
\* first one failed
C27_Witness ==
  /\ pc = "done"
  /\ Len(procs) >= 2
  /\ procs[1].error

\* the children started so far that failed to spawn ('error' was emitted)
SpawnFailures == {i \in DOMAIN procs : procs[i].error}

\* C28: a spawn failure is a failure of that task only: at every task boundary
\* errors is the number of spawn failures so far (one increment each), and
\* runQueue has left tasks of its queue unstarted only if that many spawn
\* failures reached stop_on.error_count
C28_SpawnFailureCountedOnce ==
  (QueueMode /\ AtTaskBoundaryOrEnd) =>
    /\ sessionStats.errors = Cardinality(SpawnFailures)
    /\ (pc \in {"finish", "done"} /\ Len(procs) < Len(queue)) =>
          Cardinality(SpawnFailures) >= config.stop_on.error_count

\* C29: at every task boundary of runQueue tasksCompleted + tasksFailed is the
\* number of tasks finished so far (each finished task counted once, in one of
\* the two), and errors is the number of failed tasks
C29_CountersMatchFinishedTasks ==
  (QueueMode /\ AtTaskBoundaryOrEnd) =>
    /\ sessionStats.tasksCompleted + sessionStats.tasksFailed = Len(procs)
    /\ sessionStats.tasksFailed = Cardinality({i \in DOMAIN procs : Failed(i)})
    /\ sessionStats.errors = sessionStats.tasksFailed

\* C35: a malformed or missing entry of the task file (a null, an entry with
\* neither prompt nor description) is skipped: it does not abort load or
\* runQueue, is not counted as a task failure or an error, and the well-formed
\* tasks are still run
C35_MalformedEntriesSkipped ==
  /\ pc # "aborted"
  /\ (\A i \in DOMAIN procs : ~procs[i].error) =>
        /\ sessionStats.errors = 0
        /\ sessionStats.tasksFailed = 0
  /\ pc = "done" =>
        \A id \in DOMAIN tasks : HasPrompt(id) =>
          \E i \in DOMAIN procs : procs[i].task = id /\ procs[i].state # "unspawned"

\* the children that are alive
RunningChildren == {i \in DOMAIN procs : procs[i].state = "running"}

\* C38: activeProcess designates a running child whenever one is alive and is
\* null (0) whenever none is
C38_ActiveProcessIsTheRunningChild ==
  pc # "exited" =>
    IF RunningChildren = {} THEN activeProcess = 0
    ELSE activeProcess \in RunningChildren

\* runQueue is between two tasks: at the head of the loop, waiting for a
\* resume, or awaiting slack.taskStart before runSingle
AtTaskBoundary == pc \in {"loop", "waiting", "starting"}

\* no child is spawned by a step of runQueue that finds and leaves the session
\* paused
NoStartWhilePaused ==
  (AtTaskBoundary /\ isPaused /\ isPaused') => Len(procs') = Len(procs)

\* a session found paused by the check at the head of the loop waits, and
\* goes on waiting, spawning nothing, for as long as it stays paused
NoStartWhilePausedAtCheck ==
  /\ (pc = "loop" /\ idx <= Len(queue) /\ isPaused /\ pc' # pc) => pc' = "waiting"
  /\ (pc = "waiting" /\ isPaused /\ isPaused') =>
        (pc' = "waiting" /\ Len(procs') = Len(procs))

\* a pause leaves the child processes and runQueue's position as they are
PauseLeavesChild ==
  (~isPaused /\ isPaused') =>
    (procs' = procs /\ activeProcess' = activeProcess /\ pc' = pc)

\* while the session is paused a running child can still close
ChildRunsWhilePaused ==
  \A i \in DOMAIN procs :
    (isPaused /\ pc # "exited" /\ procs[i].state = "running") =>
      ENABLED ProcClose(i, 0)

\* a waiting session that is resumed starts its task, unless it is paused
\* again before the timer fires
ResumeLeadsToStart ==
  (pc = "waiting" /\ ~isPaused) ~> (pc = "running" \/ (pc = "waiting" /\ isPaused))

\* C26 as stated: a task that runQueue is about to start is not started while
\* the session is and stays paused; after a resume it is eventually started;
\* a pause arriving while a task is running neither stops nor suspends the child
C26_PauseAtTaskBoundaries_Original ==
  /\ [][NoStartWhilePaused]_vars
  /\ [][PauseLeavesChild]_vars
  /\ []ChildRunsWhilePaused
  /\ ResumeLeadsToStart

\* C26: if the session is paused when runQueue checks isPaused at the head of
\* the loop, the task is not started while isPaused stays true, and once a
\* resume arrives it is eventually started; a pause arriving after that check
\* (while slack.taskStart is awaited) or while a task is running does not hold
\* back, stop or suspend that task
C26_PauseAtTaskBoundaries ==
  /\ [][NoStartWhilePausedAtCheck]_vars
  /\ [][PauseLeavesChild]_vars
  /\ []ChildRunsWhilePaused
  /\ ResumeLeadsToStart

\* runQueue waits at the boundary after its first task, the session paused
C26_Witness ==
  /\ pc = "waiting"
  /\ isPaused
  /\ Len(procs) >= 1

-----------------------------------------------------------------------------
(* Claims about approvals, checked under SpecApproval *)

\* no id has more than one verdict, an id with a verdict has no entry left,
\* and an id never registered has neither
AtMostOneVerdict ==
  \A id \in ApprovalIds :
    /\ Len(verdicts[id]) <= 1
    /\ Len(verdicts[id]) = 1 => id \notin pendingApprovals
    /\ id > registered => verdicts[id] = << >> /\ id \notin pendingApprovals

\* an approve/deny message for an id with an entry delivers its verdict and
\* removes the entry; for any other id it changes nothing; neither touches
\* the statistics
VerdictStep ==
  messages' # messages =>
    /\ sessionStats' = sessionStats
    /\ IF lastMessage'.id \in pendingApprovals
       THEN /\ pendingApprovals' = pendingApprovals \ {lastMessage'.id}
            /\ verdicts' = [verdicts EXCEPT ![lastMessage'.id] = <<lastMessage'.kind>>]
       ELSE /\ pendingApprovals' = pendingApprovals
            /\ verdicts' = verdicts

\* C10: for any interleaving of approve(id) and deny(id) messages at most one
\* verdict is delivered per pending id and its entry is removed once; a later
\* or duplicate message, or one for an id never registered, changes neither
\* pendingApprovals nor the statistics
C10_ApprovalResolvedAtMostOnce == []AtMostOneVerdict /\ [][VerdictStep]_vars

\* a message for id 1 arrived after its verdict was delivered, and was ignored
C10_Witness ==
  /\ lastMessage.id = 1
  /\ ~lastMessage.resolved
  /\ Len(verdicts[1]) = 1
  /\ 1 \notin pendingApprovals


-----------------------------------------------------------------------------
(* The Commander: the server's output tracker and the client's runner *)

MaxTrackerTasks == 2
MaxTrackerLines == 3
MaxChunkLines == 2
MaxRunnerTasks == 2
MaxRunnerMessages == 2
MaxWsErrors == 1

\* the detector and the supervisor after construction, under the default
\* autopilot configuration; the Commander's part is left to the caller
SupervisorNew ==
  /\ impl = "v2"
  /\ config = DefaultConfig("autopilot")
  /\ rawTasks = << >>
  /\ history = << >>
  /\ fileStats = << >>
  /\ commandStats = << >>
  /\ sessionStats = NewStats
  /\ approvalRequests = 0
  /\ lastText = NoText
  /\ lastAction = NoAction
  /\ lastResult = "none"
  /\ chunks = 0
  /\ statsBefore = NewStats
  /\ outputAfterPause = FALSE
  /\ recommendations = << >>
  /\ SupervisorIdle

\* the chunks the child can write: one to MaxChunkLines non-empty lines
OutputChunks == UNION {[1..n -> OutputLines] : n \in 1..MaxChunkLines}

\* the stdout 'data' handler of runAutopilot on a chunk
StdoutData(chunk) ==
  /\ tracker.lines + Len(chunk) <= MaxTrackerLines
  /\ tracker' = TrackLines(tracker, chunk, 1)
  /\ UNCHANGED <<config, sessionStats, policyVars, queueVars, procVars, isPaused,
                 lines, approvalVars, dashVars, runner>>

InitTracker ==
  /\ SupervisorNew
  /\ tracker \in {TrackerStart(n) : n \in 0..MaxTrackerTasks}
  /\ runner = NoRunner

NextTracker == \E chunk \in OutputChunks : StdoutData(chunk)

SpecTracker == InitTracker /\ [][NextTracker]_vars

\* the statuses a task list can have when start is called: handleRunAll resets
\* the failed tasks to pending
StartStatuses == UNION {[1..n -> {"pending", "complete"}] : n \in 0..MaxRunnerTasks}

\* ws.onopen: the start command is sent
WsOpen ==
  /\ runner.readyState = "connecting"
  /\ runner' = [runner EXCEPT !.readyState = "open"]
  /\ UNCHANGED <<config, sessionStats, policyVars, queueVars, procVars, isPaused,
                 lines, approvalVars, dashVars, tracker>>

\* ws.onmessage with a taskUpdate for taskId: handleMessage
WsTaskUpdate(taskId, status) ==
  /\ runner.readyState = "open"
  /\ runner.messages < MaxRunnerMessages
  /\ runner' = [runner EXCEPT !.tasks = taskUpdate(@, taskId, status),
                              !.messages = @ + 1]
  /\ UNCHANGED <<config, sessionStats, policyVars, queueVars, procVars, isPaused,
                 lines, approvalVars, dashVars, tracker>>

\* ws.onmessage with a message of another type (log, taskResult, complete,
\* error, stopped): callbacks only
WsOtherMessage ==
  /\ runner.readyState = "open"
  /\ runner.messages < MaxRunnerMessages
  /\ runner' = [runner EXCEPT !.messages = @ + 1]
  /\ UNCHANGED <<config, sessionStats, policyVars, queueVars, procVars, isPaused,
                 lines, approvalVars, dashVars, tracker>>

\* ws.onerror, before or after the close event: safeReject
WsError ==
  /\ runner.readyState # "none"
  /\ runner.errors < MaxWsErrors
  /\ runner' = [safeReject(runner) EXCEPT !.errors = @ + 1]
  /\ UNCHANGED <<config, sessionStats, policyVars, queueVars, procVars, isPaused,
                 lines, approvalVars, dashVars, tracker>>

\* ws.onclose: the unfinished tasks are marked failed, this.ws = null,
\* safeResolve
WsClose ==
  /\ runner.readyState \in {"connecting", "open"}
  /\ runner' = safeResolve([runner EXCEPT !.tasks = failUnfinished(@),
                                          !.wsNull = TRUE,
                                          !.readyState = "closed"])
  /\ UNCHANGED <<config, sessionStats, policyVars, queueVars, procVars, isPaused,
                 lines, approvalVars, dashVars, tracker>>

InitRunner ==
  /\ SupervisorNew
  /\ tracker = TrackerStart(0)
  /\ runner \in {RunnerStarted(statuses) : statuses \in StartStatuses}

NextRunner ==
  \/ WsOpen
  \/ \E taskId \in 1..(MaxRunnerTasks + 1),
        status \in {"running", "complete", "failed"} : WsTaskUpdate(taskId, status)
  \/ WsOtherMessage
  \/ WsError
  \/ WsClose

SpecRunner == InitRunner /\ [][NextRunner]_vars

-----------------------------------------------------------------------------
(* Claims about the dashboard's observers, checked under SpecDashboard *)

\* what an observer knows of the dashboard after its snapshot: tasks by id
ViewOf(data) ==
  [mode |-> data.mode, currentTask |-> data.currentTask.id,
   queue |-> [i \in DOMAIN data.queue |-> data.queue[i].id],
   actions |-> data.actions, stats |-> data.stats, insights |-> data.insights,
   sessionComplete |-> data.sessionComplete]

\* the view after one more message
ApplyDelta(view, msg) ==
  CASE msg.type = "mode" -> [view EXCEPT !.mode = msg.data]
    [] msg.type = "task" -> [view EXCEPT !.currentTask = msg.data.id]
    [] msg.type = "queue" ->
         [view EXCEPT !.queue = [i \in DOMAIN msg.data |-> msg.data[i].id]]
    [] msg.type = "action" ->
         [view EXCEPT !.actions = SubSeq(<<msg.data>> \o @, 1,
                                         IF Len(@) + 1 > ActionsCap THEN ActionsCap
                                         ELSE Len(@) + 1)]
    [] msg.type = "stats" -> [view EXCEPT !.stats = msg.data]
    [] msg.type = "insights" -> [view EXCEPT !.insights = msg.data]
    [] msg.type = "sessionComplete" -> [view EXCEPT !.sessionComplete = TRUE]
    [] OTHER -> view

\* the view of an observer whose first message was a snapshot, after the
\* first n messages of its inbox
RECURSIVE ViewAfter(_, _)
ViewAfter(inbox, n) ==
  IF n = 1 THEN ViewOf(inbox[1].data)
  ELSE ApplyDelta(ViewAfter(inbox, n - 1), inbox[n])

\* the dashboard's state as it is now, tasks by id
CurrentView ==
  [mode |-> dashState.mode, currentTask |-> dashState.currentTask,
   queue |-> dashState.queue, actions |-> dashState.actions, stats |-> dashStats,
   insights |-> dashInsights, sessionComplete |-> dashState.sessionComplete]

\* every connection starts with a 'state' message, the only one it ever gets,
\* and the snapshot followed by the deltas received since gives the state the
\* dashboard is in now
SnapshotThenDeltas ==
  \A i \in DOMAIN clients :
    /\ Len(clients[i].inbox) >= 1
    /\ clients[i].inbox[1].type = "state"
    /\ \A k \in 2..Len(clients[i].inbox) : clients[i].inbox[k].type # "state"
    /\ clients[i].open =>
         ViewAfter(clients[i].inbox, Len(clients[i].inbox)) = CurrentView

\* a step that accepts a connection sends it the snapshot of the state of that
\* moment and nothing else; the other connections get nothing from it
ConnectionStep ==
  Len(clients') > Len(clients) =>
    /\ clients'[Len(clients')].inbox =
         <<Message("state", Snapshot(dashState, dashStats, dashInsights, tasks))>>
    /\ ViewOf(clients'[Len(clients')].inbox[1].data) = CurrentView
    /\ \A i \in DOMAIN clients : clients'[i] = clients[i]

\* C37: an observer that connects or reconnects receives as its first message
\* a full snapshot of the current state (mode, current task, queue, actions,
\* stats, insights) reflecting every update made before the connection, and
\* no replay of earlier deltas
C37_SnapshotOnConnection == []SnapshotThenDeltas /\ [][ConnectionStep]_vars

\* an observer reconnected after a task was completed and an action handled:
\* its snapshot shows them, and a delta has followed
C37_Witness ==
  /\ Len(clients) = 2
  /\ ~clients[1].open
  /\ clients[2].open
  /\ Len(clients[2].inbox) >= 2
  /\ clients[2].inbox[1].data.stats.tasksCompleted = 1
  /\ Len(clients[2].inbox[1].data.actions) = 1
  /\ clients[2].inbox[1].data.mode = "autopilot"
  /\ Len(clients[1].inbox) >= 2


-----------------------------------------------------------------------------
(* Claims about the Commander, checked under SpecTracker and SpecRunner *)

\* the task status updates sent so far, in order
TaskUpdates == SelectSeq(tracker.sent, LAMBDA msg : msg.type = "taskUpdate")

\* the terminal ones among them
TerminalUpdates ==
  SelectSeq(TaskUpdates, LAMBDA msg : msg.status \in {"complete", "failed"})

\* the tasks reported running and not yet finished after the first k updates
RunningAfter(k) ==
  {t \in 0..(tracker.tasks - 1) :
     \E i \in 1..k :
        /\ TaskUpdates[i].task = t
        /\ TaskUpdates[i].status = "running"
        /\ \A j \in (i + 1)..k : TaskUpdates[j].task # t}

\* at most one task is reported running at a time
OneRunningAtATime ==
  \A k \in 0..Len(TaskUpdates) : Cardinality(RunningAfter(k)) <= 1

\* each task gets at most one terminal status, the terminal statuses come in
\* task order, and currentTaskIndex never exceeds the number of tasks
TerminalOnceInOrder ==
  /\ \A i \in DOMAIN TerminalUpdates : TerminalUpdates[i].task = i - 1
  /\ tracker.currentTaskIndex = Len(TerminalUpdates)
  /\ tracker.currentTaskIndex <= tracker.tasks

\* no output line finishes more than one task
OneTaskPerLine ==
  \A i, j \in DOMAIN TerminalUpdates :
     TerminalUpdates[i].line = TerminalUpdates[j].line => i = j

\* C39: in runAutopilot's output tracker at most one task is reported running
\* at a time, each task receives at most one terminal status, terminal
\* statuses are reported in task order with currentTaskIndex never exceeding
\* the number of tasks, and a single output line never finishes more than one
\* task
C39_TrackerOneTaskAtATime ==
  /\ OneRunningAtATime
  /\ TerminalOnceInOrder
  /\ OneTaskPerLine

\* C39, without its last part
C39_TrackerOrder == OneRunningAtATime /\ TerminalOnceInOrder

\* C40: start settles its promise exactly once whatever the order of the
\* error and close events
SettledOnce ==
  /\ runner.settleCalls <= 1
  /\ (runner.outcome = "pending") = (runner.settleCalls = 0)
  /\ runner.readyState = "closed" => runner.settleCalls = 1

\* after the connection has closed no task is pending or running
NoUnfinishedAfterClose ==
  runner.readyState = "closed" =>
    \A i \in DOMAIN runner.tasks : runner.tasks[i] \in {"complete", "failed"}

\* the close event marks the unfinished tasks failed and leaves the others;
\* a settled promise keeps its outcome
CloseStep ==
  /\ runner.readyState # "closed" /\ runner'.readyState = "closed" =>
       \A i \in DOMAIN runner.tasks :
          runner'.tasks[i] = IF runner.tasks[i] \in {"pending", "running"}
                             THEN "failed" ELSE runner.tasks[i]
  /\ runner.outcome # "pending" => runner'.outcome = runner.outcome

\* C40: AutopilotRunner.start settles its promise exactly once whatever the
\* order of the WebSocket error and close events, and after the connection has
\* closed no task is left pending or running: every unfinished task is marked
\* failed, while tasks already complete or failed keep their status
C40_SettledOnceNoTaskLeft ==
  [](SettledOnce /\ NoUnfinishedAfterClose) /\ [][CloseStep]_vars

\* an error, then the close, with one task complete and one still running
C40_Witness ==
  /\ runner.readyState = "closed"
  /\ runner.errors = 1
  /\ runner.outcome = "rejected"
  /\ runner.settled
  /\ runner.messages = 2
  /\ runner.tasks = <<"complete", "failed">>

=============================================================================
